---- MODULE Spec2Model ----
(***************************************************************************)
(* A model of the metadata maintenance scripts of the repository:          *)
(*   - classify-datasets.js        (src/unnamed/part_002, lines 1-346)     *)
(*   - update-metadata-contents.js (src/unnamed/part_002, lines 348-642)   *)
(*   - the schema updater          (src/unnamed/part_002, lines 644-969)   *)
(*   - transfer-evm-metadata.js, two variants, and scripts/archives/       *)
(*     fix-ids.js (the archive -> metadata transfer)                       *)
(*   - src/worker/setup_worker.sh and its two other versions               *)
(*                                                                         *)
(* The module holds six state machines that share no state; each          *)
(* specification runs one and leaves the other machines' variables alone:  *)
(*   SpecClassify  one classifyDataset call against a portal whose 13      *)
(*                 probe answers are fixed at the start                    *)
(*   SpecPair      two classifyDataset calls in flight in one batch, the   *)
(*                 portal answering each probe as it likes                 *)
(*   SpecFetch     one fetchJson / probeCapability call on top of          *)
(*                 fetchWith429Retry                                       *)
(*   SpecTransfer  two consecutive runs of the archive transfer script     *)
(*   SpecRun       one run of classify-datasets.js or of an updater, from  *)
(*                 the catalog listing to the exit                         *)
(*   SpecScripts   SpecTransfer or SpecRun                                 *)
(*   SpecBatch     one call of mapInBatches, the tasks of a batch in       *)
(*                 flight together (SpecBatchFair: every task terminates)  *)
(*   SpecWizard    the worker setup wizard, run and run again              *)
(***************************************************************************)
EXTENDS Integers, Sequences, FiniteSets, TLC

VARIABLES
    \* ---- classifyDataset (one entry per dataset of the batch)
    portal,     \* the portal's answer to each probe of dataset d1 (SpecClassify)
    active,     \* the datasets whose mapper task has been started
    site,       \* where each classifyDataset call stands: a probe site, "idle" or "done"
    cache,      \* each call's cache: Map from `${capability}:${type}` to boolean
    sent,       \* per dataset and pair, the probeCapability calls made
    evals,      \* per dataset and pair, the evaluations of probe(capability, type)
    kind,       \* each call's return value, "pending" until it returns
    \* ---- one fetchJson / probeCapability call over fetchWith429Retry
    script,     \* whose copy of the helpers runs: "classify", "contents" or "schema"
    call,       \* the call made: fetchJson(url) or probeCapability(baseUrl, capability, block, probeType)
    fpc,        \* "idle", "fetch" (top of the retry loop), "sleep", "returned", "thrown", "done"
    attempt,    \* the loop variable of fetchWith429Retry
    requests,   \* fetch() calls made so far
    n429,       \* 429 responses received so far
    waits,      \* sleep() calls made so far
    lastDelay,  \* the delayMs of the sleep() call under way (0 outside a sleep)
    minWait,    \* the smallest delayMs any sleep() call of this call was given
    reqBody,    \* the body of the latest request (probeCapability), parsed back from its JSON text
    res,        \* the latest response: its ordinal, status, Retry-After header and body text
    outcome,    \* how fetchWith429Retry ended: the response returned or the error thrown
    callResult, \* what the caller (fetchJson / probeCapability) gave back
    \* ---- the archive -> metadata transfer script, run twice
    variant,    \* which version of the script runs: "nested", "flat" or "fixids"
    overwrite,  \* whether --overwrite was given
    archives,   \* the archives array of src/archives/evm.json
    disk,       \* the datasets mapping of the metadata file
    disk1,      \* the datasets mapping of the metadata file when the second run began
    mem,        \* metadata.datasets of the running script
    tpc,        \* "idle", "start", "loop", "saved", "failed"
    idx,        \* the position of the for loop in archives
    run,        \* 1 or 2
    yaml,       \* the js-yaml release that is installed
    \* ---- one run of classify-datasets.js or of one of the two updaters
    prog,       \* the script that runs: "classify", "contents" or "schema"
    fullFlag, \* whether --full-update was given
    listing,    \* what fetchJson(PORTAL_BASE) is answered
    yamlFile,       \* the metadata yamlFile, as yaml.load reads it
    yamlFile0,      \* the metadata yamlFile when the run began
    portalList,      \* datasetNames / portalNames
    mapResults,    \* the mapResults of the mapper calls so far
    found,      \* classifications / portalEvmDatasets (a Map)
    rmem,       \* metadata.datasets of the running script
    todo,       \* toUpdate of updateContents / updateSchema
    rpc,        \* "idle", "list", "map", "load", "check", "apply", "update", "save",
                \* "saved", "failed"
    rpos,       \* the position of the mapper loop
    requested,  \* whether an HTTP request has been issued
    probed,     \* whether a capability probe has been issued
    writes,     \* how many times the metadata yamlFile was written
    missingTxt, \* missing-networks.txt
    failure,    \* the error the run died of, with the portalList its message lists
    \* ---- one call of mapInBatches and the caller's statements after it
    caller,     \* the script whose mapper runs: "classify", "contents" or "schema"
    itemList,   \* items
    batchSize,  \* batchSize
    server,     \* the portal's answers for each dataset
    tasks,      \* per item: "waiting", "head", "probe" (in flight) or "done"
    ret,        \* per item: what its mapper call returned
    mapperCalls, \* per item: how many times the mapper was called for it
    outList,    \* out
    bi,         \* the loop variable i
    bpc,        \* "idle", "loop", "await", "returned", "ok", "thrown"
    finished,   \* the items' positions in the order in which their tasks completed
    errorList,  \* errors of updateContents / updateSchema
    writeSet,   \* the assignments to metadata.datasets[id] made by the tasks
    probedTasks, \* the tasks that have issued a capability probe
    bfound,     \* classifications
    bfail,      \* "none", or the error thrown after the call
    \* ---- the worker setup wizard
    wversion,   \* which version of the script runs
    argc,       \* $#
    depsInstalled, \* docker and curl are installed
    dataDirExists, \* [ -d "$DATA_DIR" ]
    keyFileExists, \* [ -f "$KEY_PATH" ]
    envFile,    \* .env in the working directory
    envWrites,  \* how many times this run has written .env
    LISTEN_PORT, \* $LISTEN_PORT
    wpc,        \* "idle", "args", "dir", "key", "port", "env", "download", "done", "exit"
    wrun,       \* 1 for the first run, 2 for the run after it
    exitWhy,    \* why this run exited with status 1, "none" so far
    prevExit    \* how the run before this one ended

classifyVars == <<portal, active, site, cache, sent, evals, kind>>

transferVars == <<variant, overwrite, archives, disk, disk1, mem, tpc, idx, run, yaml>>

runVars == <<prog, fullFlag, listing, yamlFile, yamlFile0, portalList, mapResults, found, rmem, todo, rpc,
             rpos, requested, probed, writes, missingTxt, failure>>

fetchVars == <<script, call, fpc, attempt, requests, n429, waits, lastDelay, minWait,
               reqBody, res, outcome, callResult>>

batchVars == <<caller, itemList, batchSize, server, tasks, ret, mapperCalls, outList, bi, bpc,
               finished, errorList, writeSet, probedTasks, bfound, bfail>>

wizardVars == <<wversion, argc, depsInstalled, dataDirExists, keyFileExists, envFile,
                envWrites, LISTEN_PORT, wpc, wrun, exitWhy, prevExit>>

NULL == "null"

(***************************************************************************)
(* classifyDataset                                                         *)
(***************************************************************************)

Datasets == {"d1", "d2"}

\* The (capability, type) pairs classifyDataset probes, as written at its call sites.
ProbePairs ==
    { <<"transactions", "evm">>, <<"instructions", "solana">>, <<"events", "starknet">>,
      <<"receipts", "fuel">>, <<"internalTransactions", "tron">>,
      <<"tokenBalances", "solana">>, <<"events", "substrate">>, <<"calls", "substrate">>,
      <<"inputs", "fuel">>, <<"transactions", "tron">>,
      <<"fills", "hyperliquidFills">>, <<"orderActions", "hyperliquidReplicaCmds">>,
      <<"inputs", "bitcoin">> }

Kinds == {"evm", "solana", "substrate", "fuel", "tron", "hyperliquidFills",
          "hyperliquidReplicaCmds", "bitcoin"}

\* A mutant of cacheKey: the key leaves the type out.
cacheKeyNoType(capability, type) == capability

\* const key = `${capability}:${type}`
cacheKey(capability, type) == capability \o ":" \o type

\* The probe sites of classifyDataset in source order (sNNN: the call on line NNN,
\* a, b: its position on the line). yes / no: where control goes when the awaited
\* probe is true / false: another site, or the value returned.
ClassifySites ==
    [ s168  |-> [cap |-> "transactions", type |-> "evm", yes |-> "s169", no |-> "s178a"],
      s169  |-> [cap |-> "instructions", type |-> "solana", yes |-> "s178a", no |-> "s170"],
      s170  |-> [cap |-> "events", type |-> "starknet", yes |-> "s178a", no |-> "s171"],
      s171  |-> [cap |-> "receipts", type |-> "fuel", yes |-> "s178a", no |-> "s172"],
      s172  |-> [cap |-> "internalTransactions", type |-> "tron", yes |-> "s178a", no |-> "evm"],
      s178a |-> [cap |-> "instructions", type |-> "solana", yes |-> "s178b", no |-> "s183a"],
      s178b |-> [cap |-> "tokenBalances", type |-> "solana", yes |-> "solana", no |-> "s183a"],
      s183a |-> [cap |-> "events", type |-> "substrate", yes |-> "s183b", no |-> "s188a"],
      s183b |-> [cap |-> "calls", type |-> "substrate", yes |-> "substrate", no |-> "s188a"],
      s188a |-> [cap |-> "receipts", type |-> "fuel", yes |-> "s188b", no |-> "s193a"],
      s188b |-> [cap |-> "inputs", type |-> "fuel", yes |-> "fuel", no |-> "s193a"],
      s193a |-> [cap |-> "transactions", type |-> "tron", yes |-> "s193b", no |-> "s198"],
      s193b |-> [cap |-> "internalTransactions", type |-> "tron", yes |-> "tron", no |-> "s198"],
      s198  |-> [cap |-> "fills", type |-> "hyperliquidFills", yes |-> "hyperliquidFills", no |-> "s203"],
      s203  |-> [cap |-> "orderActions", type |-> "hyperliquidReplicaCmds",
                 yes |-> "hyperliquidReplicaCmds", no |-> "s208a"],
      s208a |-> [cap |-> "inputs", type |-> "bitcoin", yes |-> "s208b", no |-> NULL],
      s208b |-> [cap |-> "receipts", type |-> "fuel", yes |-> NULL, no |-> "bitcoin"] ]

\* A mutant of nextSite: the evm rule returns without probing internalTransactions(tron).
nextSiteDropTron(s, value) ==
    IF s = "s171" /\ ~value THEN "evm"
    ELSE IF value THEN ClassifySites[s].yes ELSE ClassifySites[s].no

\* A mutant of nextSite: the evm rule reads events(starknet) the wrong way round.
nextSiteStarknetFlipped(s, value) ==
    IF s = "s170" THEN (IF value THEN "s171" ELSE "s178a")
    ELSE IF value THEN ClassifySites[s].yes ELSE ClassifySites[s].no

\* A mutant of nextSite: a solana dataset that also answers transactions(evm) is
\* taken for the evm rule's business and never reaches the solana rule.
nextSiteSolanaSkipped(s, value) ==
    IF s = "s169" /\ value THEN "s183a"
    ELSE IF value THEN ClassifySites[s].yes ELSE ClassifySites[s].no

\* The short-circuit control flow of classifyDataset: where the call goes after the
\* probe at site s came back with `value`.
nextSite(s, value) ==
    IF value THEN ClassifySites[s].yes ELSE ClassifySites[s].no

SiteNames == DOMAIN ClassifySites

FirstSite == "s168"

\* cache.has(key)
cacheHas(c, capability, type) == cacheKey(capability, type) \in DOMAIN c

\* cache.get(key)
cacheGet(c, capability, type) == c[cacheKey(capability, type)]

\* A mutant of cacheSet: the probe result is not stored.
cacheSetDropped(c, capability, type, value) == c

\* cache.set(key, value)
cacheSet(c, capability, type, value) ==
    LET key == cacheKey(capability, type)
    IN  [k \in DOMAIN c \cup {key} |-> IF k = key THEN value ELSE c[k]]

EmptyMap == [k \in {} |-> FALSE]

Bump(counts, d, pair) == [counts EXCEPT ![d][pair] = @ + 1]

\* Where the call goes after a probe at site s came back with `value`.
AfterProbe(d, s, value) ==
    LET to == nextSite(s, value)
    IN  IF to \in SiteNames
        THEN /\ site' = [site EXCEPT ![d] = to]
             /\ kind' = kind
        ELSE /\ site' = [site EXCEPT ![d] = "done"]
             /\ kind' = [kind EXCEPT ![d] = to]

\* probe(capability, type) at the call's current site when the key is cached:
\* no request, the cached value is the probe's value.
ProbeFromCache(d) ==
    /\ d \in active
    /\ site[d] \in SiteNames
    /\ LET s == ClassifySites[site[d]]
       IN  /\ cacheHas(cache[d], s.cap, s.type)
           /\ evals' = Bump(evals, d, <<s.cap, s.type>>)
           /\ AfterProbe(d, site[d], cacheGet(cache[d], s.cap, s.type))
    /\ UNCHANGED <<portal, active, cache, sent>>

\* probe(capability, type) at the call's current site when the key is not cached:
\* probeCapability is called, the portal answers `answer`, the answer is cached and
\* read back from the cache.
ProbeOverNetwork(d, answer) ==
    /\ d \in active
    /\ site[d] \in SiteNames
    /\ LET s == ClassifySites[site[d]]
           c == cacheSet(cache[d], s.cap, s.type, answer)
       IN  /\ ~cacheHas(cache[d], s.cap, s.type)
           /\ evals' = Bump(evals, d, <<s.cap, s.type>>)
           /\ sent' = Bump(sent, d, <<s.cap, s.type>>)
           /\ cache' = [cache EXCEPT ![d] = c]
           \* return cache.get(key): with nothing stored the call would read undefined,
           \* which is falsy
           /\ AfterProbe(d, site[d],
                         IF cacheHas(c, s.cap, s.type) THEN cacheGet(c, s.cap, s.type) ELSE FALSE)
    /\ UNCHANGED <<portal, active>>

\* const kind = await classifyDataset(baseUrl, headBlock): a new cache, the first site.
ClassifyStart(d) ==
    /\ d \notin active
    /\ active' = active \cup {d}
    /\ site' = [site EXCEPT ![d] = FirstSite]
    /\ cache' = [cache EXCEPT ![d] = EmptyMap]
    /\ UNCHANGED <<portal, sent, evals, kind>>

ClassifyIdle(answers, started) ==
    /\ portal = answers
    /\ active = started
    /\ site = [d \in Datasets |-> IF d \in started THEN FirstSite ELSE "idle"]
    /\ cache = [d \in Datasets |-> EmptyMap]
    /\ sent = [d \in Datasets |-> [p \in ProbePairs |-> 0]]
    /\ evals = [d \in Datasets |-> [p \in ProbePairs |-> 0]]
    /\ kind = [d \in Datasets |-> "pending"]

NoAnswers == [p \in ProbePairs |-> FALSE]

(***************************************************************************)
(* HTTP helpers: parseRetryAfterHeaderMs, fetchWith429Retry, fetchJson,    *)
(* buildProbeBody, probeCapability (three copies, one per script)          *)
(***************************************************************************)

Scripts == {"classify", "contents", "schema"}

\* const MAX_429_RETRIES = Number(process.env.PORTAL_MAX_429_RETRIES || 6)
MAX_429_RETRIES == 6

\* const DEFAULT_429_DELAY_MS = Number(process.env.PORTAL_DEFAULT_429_DELAY_MS || 1_000)
DEFAULT_429_DELAY_MS == 1000

\* bodyText.slice(0, 500)
BODY_SLICE == 500

Max(a, b) == IF a >= b THEN a ELSE b
Min(a, b) == IF a <= b THEN a ELSE b

\* A JavaScript number-or-null.
JsNull == [nul |-> TRUE]
JsNum(n) == [nul |-> FALSE, n |-> n]

\* ---- what the portal can answer

Statuses == {200, 204, 304, 400, 404, 429, 500}

\* The Retry-After header as res.headers.get('retry-after') gives it: null when the
\* header is absent, else its text; an HTTP-date is given by how far it lies ahead of
\* Date.now() at the time it is parsed (negative: in the past).
Absent == [t |-> "absent"]
HeaderText(text) == [t |-> "text", text |-> text]
HttpDate(aheadMs) == [t |-> "date", aheadMs |-> aheadMs]

RetryAfterValues ==
    {Absent, HeaderText(""), HeaderText("0"), HeaderText("-5"), HeaderText("0.5"),
     HeaderText("2"), HeaderText("soon"), HttpDate(-2000), HttpDate(400), HttpDate(3000)}

\* Number(value) * 1000 for the header texts above; NaN (not finite) is JsNull here.
NumberTimes1000(text) ==
    CASE text = "0"   -> JsNum(0)
      [] text = "-5"  -> JsNum(-5000)
      [] text = "0.5" -> JsNum(500)
      [] text = "2"   -> JsNum(2000)
      [] OTHER        -> JsNull

\* Response body texts, as sequences of character codes: 32 ' ', 60 '<', 123 '{', 125 '}'.
Repeat(code, n) == [i \in 1..n |-> code]

BodyTexts ==
    { <<>>, <<32, 32>>, <<123, 125>>, <<60, 104, 62>>,
      Repeat(60, BODY_SLICE), Repeat(60, BODY_SLICE + 1) }

\* text.slice(0, n)
Slice(text, n) == SubSeq(text, 1, Min(Len(text), n))

\* text.trim() === ''
IsBlank(text) == \A i \in 1..Len(text) : text[i] = 32

\* Whether JSON.parse(text) succeeds, for the body texts above: only "{}" is JSON.
JsonParses(text) == text = <<123, 125>>

NoResponse == [seq |-> 0, status |-> 0, retryAfter |-> Absent, body |-> <<>>]

\* The responses the portal can give to request number seq. The Retry-After header is
\* read from a 429 response only, so it is left out of the others.
Responses(seq) ==
    [seq : {seq}, status : {429}, retryAfter : RetryAfterValues, body : BodyTexts]
    \cup [seq : {seq}, status : Statuses \ {429}, retryAfter : {Absent}, body : BodyTexts]

\* ---- parseRetryAfterHeaderMs(value)
parseRetryAfterHeaderMs(value) ==
    IF value.t = "absent" \/ (value.t = "text" /\ value.text = "")
    THEN JsNull                                          \* if (!value) return null
    ELSE IF value.t = "text" /\ ~NumberTimes1000(value.text).nul
    THEN NumberTimes1000(value.text)                     \* return asNumber * 1000
    ELSE IF value.t = "date"
    THEN JsNum(IF value.aheadMs > 0 THEN value.aheadMs ELSE 0)
    ELSE JsNull

\* The first argument of Math.max in the delay computation: 1000 in classify-datasets
\* (line 95) and in the schema updater (line 744), 0 in the contents updater (line 438).
MathMaxFloor(s) == IF s = "contents" THEN 0 ELSE 1000

\* A mutant of delayMs: no Math.max around the delay.
delayMsUnclamped(s, retryAfterMs, att) ==
    IF retryAfterMs.nul THEN DEFAULT_429_DELAY_MS * (att + 1) ELSE retryAfterMs.n

\* const delayMs = Math.max(floor, retryAfterMs ?? DEFAULT_429_DELAY_MS * (attempt + 1))
delayMs(s, retryAfterMs, att) ==
    Max(MathMaxFloor(s),
        IF retryAfterMs.nul THEN DEFAULT_429_DELAY_MS * (att + 1) ELSE retryAfterMs.n)

\* A mutant of lastAttempt: the loop gives up one attempt early.
lastAttemptEarly(att) == att = MAX_429_RETRIES - 1

\* if (attempt === MAX_429_RETRIES)
lastAttempt(att) == att = MAX_429_RETRIES

\* A mutant of errorBody: the error carries the text of the header instead.
errorBodyEmpty(bodyText) == <<>>

\* The body part of the thrown error's message: `Body: ${bodyText.slice(0, 500)}`
errorBody(bodyText) == Slice(bodyText, BODY_SLICE)

\* ---- buildProbeBody(block, capability, probeType)
UNDEFINED == "undefined"

\* probeType = 'evm' is a default parameter in the contents and schema updaters only.
probeTypeOf(s, typeArg) ==
    IF typeArg = UNDEFINED /\ s # "classify" THEN "evm" ELSE typeArg

\* A mutant of buildProbeBody: toBlock is left open.
buildProbeBodyOpenEnded(block, capability, probeType) ==
    LET body == [k \in {"type", "fromBlock"} |->
                    IF k = "type" THEN <<"string", probeType>> ELSE <<"number", block>>]
    IN  [k \in DOMAIN body \cup {capability} |->
            IF k = capability THEN <<"array", 1>> ELSE body[k]]

\* The request body as an object: each key with its value, tagged by its JSON type;
\* body[capability] = [{}] is an array of one empty object, and is assigned last, so
\* it replaces a key of the same name.
buildProbeBody(block, capability, probeType) ==
    LET body == [k \in {"type", "fromBlock", "toBlock"} |->
                    IF k = "type" THEN <<"string", probeType>> ELSE <<"number", block>>]
    IN  [k \in DOMAIN body \cup {capability} |->
            IF k = capability THEN <<"array", 1>> ELSE body[k]]

NoBody == [k \in {} |-> <<>>]

\* ---- the calls the scripts make

Blocks == {0, 17}

\* (capability, probeType argument) at the probeCapability call sites of each script.
ProbeCallSites(s) ==
    CASE s = "classify" -> ProbePairs
      [] s = "contents" -> { <<"transactions", UNDEFINED>>, <<"instructions", "solana">>,
                             <<"logs", UNDEFINED>>, <<"traces", UNDEFINED>>,
                             <<"stateDiffs", UNDEFINED>> }
      [] s = "schema"   -> { <<"transactions", "evm">>, <<"instructions", "solana">>,
                             <<"events", "starknet">>, <<"receipts", "fuel">>,
                             <<"internalTransactions", "tron">>, <<"logs", UNDEFINED>>,
                             <<"traces", UNDEFINED>>, <<"stateDiffs", UNDEFINED>> }

FetchJsonCall == [fn |-> "fetchJson", capability |-> "", typeArg |-> "", block |-> 0]

CallsOf(s) ==
    {FetchJsonCall} \cup
    { [fn |-> "probeCapability", capability |-> site0[1], typeArg |-> site0[2], block |-> b] :
        site0 \in ProbeCallSites(s), b \in Blocks }

\* The body fetch() is given: probeCapability sends JSON.stringify(buildProbeBody(...))
\* (every value of it is a string, a finite number or [{}], which JSON text carries
\* unchanged), fetchJson sends none.
requestBody(s, c) ==
    IF c.fn = "probeCapability"
    THEN buildProbeBody(c.block, c.capability, probeTypeOf(s, c.typeArg))
    ELSE NoBody

Pending == [t |-> "pending"]

\* minWait before the first sleep: larger than any delay of the model.
NoWait == DEFAULT_429_DELAY_MS * (MAX_429_RETRIES + 2)

FetchIdle ==
    /\ script = "classify"
    /\ call = FetchJsonCall
    /\ fpc = "idle"
    /\ attempt = 0
    /\ requests = 0
    /\ n429 = 0
    /\ waits = 0
    /\ lastDelay = 0
    /\ minWait = NoWait
    /\ reqBody = NoBody
    /\ res = NoResponse
    /\ outcome = Pending
    /\ callResult = Pending

\* A call is made: fetchWith429Retry enters its loop with attempt = 0.
InitFetch ==
    /\ script \in Scripts
    /\ call \in CallsOf(script)
    /\ fpc = "fetch"
    /\ attempt = 0
    /\ requests = 0
    /\ n429 = 0
    /\ waits = 0
    /\ lastDelay = 0
    /\ minWait = NoWait
    /\ reqBody = NoBody
    /\ res = NoResponse
    /\ outcome = Pending
    /\ callResult = Pending

\* const res = await fetch(url, ...): one request goes out and is answered.
Fetched(r) ==
    /\ fpc = "fetch"
    /\ attempt <= MAX_429_RETRIES
    /\ requests' = requests + 1
    /\ reqBody' = requestBody(script, call)
    /\ res' = r

\* if (res.status !== 429) return res
RespondOther ==
    /\ \E r \in Responses(requests + 1) :
        /\ r.status # 429
        /\ Fetched(r)
        /\ outcome' = [t |-> "returned", res |-> r]
    /\ fpc' = "returned"
    /\ UNCHANGED <<script, call, attempt, n429, waits, lastDelay, minWait, callResult>>

\* A 429 on the last attempt: the body is read and the error thrown, without a sleep.
Respond429Last ==
    /\ lastAttempt(attempt)
    /\ \E r \in Responses(requests + 1) :
        /\ r.status = 429
        /\ Fetched(r)
        /\ outcome' = [t |-> "thrown", attempts |-> MAX_429_RETRIES + 1,
                       body |-> errorBody(r.body)]
    /\ n429' = n429 + 1
    /\ fpc' = "thrown"
    /\ UNCHANGED <<script, call, attempt, waits, lastDelay, minWait, callResult>>

\* A 429 on an earlier attempt: the delay is computed and sleep(delayMs) awaited.
Respond429Retry ==
    /\ ~lastAttempt(attempt)
    /\ \E r \in Responses(requests + 1) :
        /\ r.status = 429
        /\ Fetched(r)
        /\ lastDelay' = delayMs(script, parseRetryAfterHeaderMs(r.retryAfter), attempt)
        /\ minWait' = Min(minWait, lastDelay')
    /\ n429' = n429 + 1
    /\ waits' = waits + 1
    /\ fpc' = "sleep"
    /\ UNCHANGED <<script, call, attempt, outcome, callResult>>

\* The sleep is over: the iteration's res and delayMs go out of scope, attempt++ and
\* the loop condition is tested again.
Wake ==
    /\ fpc = "sleep"
    /\ res' = NoResponse
    /\ lastDelay' = 0
    /\ attempt' = attempt + 1
    /\ fpc' = IF attempt + 1 <= MAX_429_RETRIES THEN "fetch" ELSE "thrown"
    /\ outcome' = IF attempt + 1 <= MAX_429_RETRIES THEN outcome
                  ELSE [t |-> "thrown", attempts |-> 0, body |-> <<>>]   \* Unreachable retry path
    /\ UNCHANGED <<script, call, requests, n429, waits, minWait, reqBody, callResult>>

\* A mutant of fetchJsonResult: res.ok is tested before the 404.
fetchJsonResultOkFirst(r) ==
    IF ~(r.status >= 200 /\ r.status <= 299) THEN [t |-> "status", status |-> r.status, body |-> r.body]
    ELSE IF IsBlank(r.body) THEN [t |-> "object", text |-> <<123, 125>>]
    ELSE IF JsonParses(r.body) THEN [t |-> "object", text |-> r.body]
    ELSE [t |-> "raw", text |-> r.body]

\* fetchJson after fetchWith429Retry returned r: null for 404, {_status, _body} for
\* another status that is not ok (200-299), else {} for a blank text, the parsed JSON,
\* or {_raw: text}.
fetchJsonResult(r) ==
    IF r.status = 404 THEN [t |-> "null"]
    ELSE IF ~(r.status >= 200 /\ r.status <= 299)
    THEN [t |-> "status", status |-> r.status, body |-> r.body]
    ELSE IF IsBlank(r.body) THEN [t |-> "object", text |-> <<123, 125>>]
    ELSE IF JsonParses(r.body) THEN [t |-> "object", text |-> r.body]
    ELSE [t |-> "raw", text |-> r.body]

\* A mutant of probeCapabilityResult: only 200 counts.
probeCapabilityResult200(r) == [t |-> "boolean", value |-> r.status = 200]

\* return res.status === 200 || res.status === 204
probeCapabilityResult(r) == [t |-> "boolean", value |-> (r.status = 200 \/ r.status = 204)]

\* fetchJson goes on after `await fetchWith429Retry(...)`.
FetchJsonReturn ==
    /\ fpc = "returned"
    /\ call.fn = "fetchJson"
    /\ callResult' = fetchJsonResult(outcome.res)
    /\ fpc' = "done"
    /\ UNCHANGED <<script, call, attempt, requests, n429, waits, lastDelay, minWait, reqBody, res,
                   outcome>>

\* probeCapability goes on after `await fetchWith429Retry(...)`.
ProbeCapabilityReturn ==
    /\ fpc = "returned"
    /\ call.fn = "probeCapability"
    /\ callResult' = probeCapabilityResult(outcome.res)
    /\ fpc' = "done"
    /\ UNCHANGED <<script, call, attempt, requests, n429, waits, lastDelay, minWait, reqBody, res,
                   outcome>>

\* The error of fetchWith429Retry passes through fetchJson / probeCapability, which
\* do not catch it.
ErrorPropagates ==
    /\ fpc = "thrown"
    /\ callResult' = [t |-> "threw", error |-> outcome]
    /\ fpc' = "failed"
    /\ UNCHANGED <<script, call, attempt, requests, n429, waits, lastDelay, minWait, reqBody, res,
                   outcome>>

(***************************************************************************)
(* The archive -> metadata transfer: transfer-evm-metadata.js in its two   *)
(* versions ("nested": fields under record.metadata, lines 1-103; "flat":  *)
(* fields on the record, no sort, lines 105-189) and fix-ids.js ("fixids": *)
(* fields on the record, sorted, lines 20-117)                             *)
(***************************************************************************)

Variants == {"nested", "flat", "fixids"}

\* ---- JavaScript values: undefined, null, scalars, and objects (key -> value).
Undef == [t |-> "undefined"]
Null == [t |-> "null"]
Str(v) == [t |-> "string", v |-> v]
Num(v) == [t |-> "number", v |-> v]
JsFalse == [t |-> "boolean", v |-> "false"]
JsTrue == [t |-> "boolean", v |-> "true"]
Obj(f) == [t |-> "object", f |-> f]
EmptyObj == Obj([k \in {} |-> Undef])

\* value && typeof value === 'object'
IsObject(v) == v.t = "object"

\* !!value for the values of the model (no empty string, no zero)
Truthy(v) == v.t \notin {"undefined", "null"} /\ v # JsFalse

\* object[key]
Get(o, key) == IF o.t = "object" /\ key \in DOMAIN o.f THEN o.f[key] ELSE Undef

\* object[key] = value
Put(o, key, value) ==
    Obj([k \in DOMAIN o.f \cup {key} |-> IF k = key THEN value ELSE o.f[k]])

\* ---- the datasets object: its records and its key order (Object.keys order)

\* Keys that are array indexes ("10") come first in an object's key order, in
\* ascending numeric order; the other keys follow in insertion order.
ArrayIndexOf == [k \in {"10"} |-> 10]
IsArrayIndex(key) == key \in DOMAIN ArrayIndexOf

Range(seq) == {seq[i] : i \in 1..Len(seq)}

InsertAt(seq, pos, x) ==
    [i \in 1..(Len(seq) + 1) |->
        IF i < pos THEN seq[i] ELSE IF i = pos THEN x ELSE seq[i - 1]]

\* The key order of an object after object[key] = ... .
ObjInsert(order, key) ==
    IF key \in Range(order) THEN order
    ELSE IF IsArrayIndex(key)
    THEN InsertAt(order,
                  1 + Cardinality({i \in 1..Len(order) :
                                     /\ IsArrayIndex(order[i])
                                     /\ ArrayIndexOf[order[i]] < ArrayIndexOf[key]}),
                  key)
    ELSE Append(order, key)

EmptyDoc == [order |-> <<>>, recs |-> [k \in {} |-> Undef]]

\* datasets[id]
DocGet(doc, id) == IF id \in DOMAIN doc.recs THEN doc.recs[id] ELSE Undef

\* datasets[id] = record
DocPut(doc, id, record) ==
    [order |-> ObjInsert(doc.order, id),
     recs |-> [k \in DOMAIN doc.recs \cup {id} |-> IF k = id THEN record ELSE doc.recs[k]]]

\* ---- strings as UTF-16 code units, for the < of the sort comparator
CodeUnits ==
    ( "" :> <<>> ) @@
    [ evm |-> <<101, 118, 109>>, solana |-> <<115, 111, 108, 97, 110, 97>>,
      eth |-> <<101, 116, 104>>, base |-> <<98, 97, 115, 101>> ] @@
    ( "10" :> <<49, 48>> )

RECURSIVE SeqLess(_, _)
SeqLess(a, b) ==
    IF b = <<>> THEN FALSE
    ELSE IF a = <<>> THEN TRUE
    ELSE IF Head(a) # Head(b) THEN Head(a) < Head(b)
    ELSE SeqLess(Tail(a), Tail(b))

\* a < b on strings
StrLess(a, b) == SeqLess(CodeUnits[a], CodeUnits[b])

\* ---- shouldSet(value, overwrite)
\* A mutant of shouldSet: the flag is not looked at.
shouldSetIgnoresOverwrite(value, ow) == value.t = "undefined" \/ value.t = "null"

shouldSetUndefinedOnly(value, ow) == ow \/ value.t = "undefined"

shouldSet(value, ow) == ow \/ value.t = "undefined" \/ value.t = "null"

\* archive.isTestnet === false ? 'mainnet' : 'testnet'
networkType(archive) == IF archive.isTestnet = JsFalse THEN Str("mainnet") ELSE Str("testnet")

\* assert(typeof archive.id === 'string' && archive.id.length > 0, ...)
validArchive(archive) == archive.id # ""

Assign(o, key, value, doIt) == IF doIt THEN Put(o, key, value) ELSE o

\* transferArchive of the nested version (transfer-evm-metadata.js, lines 32-64)
transferArchiveNested(archive, datasets, ow) ==
    LET existing == DocGet(datasets, archive.id)
        dataset  == IF Truthy(existing) THEN existing ELSE EmptyObj
        meta     == IF IsObject(Get(dataset, "metadata")) THEN Get(dataset, "metadata") ELSE EmptyObj
        evm      == IF IsObject(Get(meta, "evm")) THEN Get(meta, "evm") ELSE EmptyObj
        meta1    == Assign(meta, "display_name", archive.chainName,
                           shouldSet(Get(meta, "display_name"), ow))
        meta2    == Assign(meta1, "logo_url", archive.logoUrl,
                           shouldSet(Get(meta1, "logo_url"), ow))
        meta3    == Assign(meta2, "type", networkType(archive),
                           shouldSet(Get(meta2, "type"), ow))
        evm1     == Assign(evm, "chain_id", archive.chainId,
                           shouldSet(Get(evm, "chain_id"), ow))
        meta4    == Put(Put(meta3, "kind", Str("evm")), "evm", evm1)
        dataset1 == Put(dataset, "metadata", meta4)
        dataset2 == Assign(dataset1, "schema", EmptyObj,
                           shouldSet(Get(dataset1, "schema"), ow))
    IN  DocPut(datasets, archive.id, dataset2)

\* transferArchive of the flat version (transfer-evm-metadata.js, lines 136-163, and
\* fix-ids.js, lines 51-78)
transferArchiveFlat(archive, datasets, ow) ==
    LET existing == DocGet(datasets, archive.id)
        dataset  == IF Truthy(existing) THEN existing ELSE EmptyObj
        evm      == IF IsObject(Get(dataset, "evm")) THEN Get(dataset, "evm") ELSE EmptyObj
        dataset1 == Assign(dataset, "display_name", archive.chainName,
                           shouldSet(Get(dataset, "display_name"), ow))
        dataset2 == Assign(dataset1, "logo_url", archive.logoUrl,
                           shouldSet(Get(dataset1, "logo_url"), ow))
        dataset3 == Assign(dataset2, "type", networkType(archive),
                           shouldSet(Get(dataset2, "type"), ow))
        evm1     == Assign(evm, "chain_id", archive.chainId,
                           shouldSet(Get(evm, "chain_id"), ow))
        dataset4 == Put(Put(dataset3, "kind", Str("evm")), "evm", evm1)
    IN  DocPut(datasets, archive.id, dataset4)

\* A mutant of transferArchive: the archive's record is put in an empty document.
transferArchiveAlone(v, archive, datasets, ow) ==
    IF v = "nested" THEN transferArchiveNested(archive, EmptyDoc, ow)
    ELSE transferArchiveFlat(archive, EmptyDoc, ow)

transferArchive(v, archive, datasets, ow) ==
    IF v = "nested" THEN transferArchiveNested(archive, datasets, ow)
    ELSE transferArchiveFlat(archive, datasets, ow)

\* ---- sortDatasets

\* ((datasets[a].metadata || {}).kind || '') in the nested version, (datasets[a].kind || '')
\* in fix-ids.js; the kinds of the model are strings, so a truthy kind is its text.
sortKind(v, record) ==
    LET holder == IF v = "nested"
                  THEN (IF Truthy(Get(record, "metadata")) THEN Get(record, "metadata") ELSE EmptyObj)
                  ELSE record
        k == Get(holder, "kind")
    IN  IF Truthy(k) THEN k.v ELSE ""

\* A mutant of compareDatasets: no tie-break on the key, equal kinds compare as -1.
compareDatasetsKindOnly(v, datasets, a, b) ==
    LET kindA == sortKind(v, datasets.recs[a])
        kindB == sortKind(v, datasets.recs[b])
    IN  IF StrLess(kindB, kindA) THEN 1 ELSE -1

\* The comparator handed to Array.prototype.sort.
compareDatasets(v, datasets, a, b) ==
    LET kindA == sortKind(v, datasets.recs[a])
        kindB == sortKind(v, datasets.recs[b])
    IN  IF kindA # kindB THEN (IF StrLess(kindA, kindB) THEN -1 ELSE 1)
        ELSE IF StrLess(a, b) THEN -1 ELSE IF StrLess(b, a) THEN 1 ELSE 0

\* Array.prototype.sort with that comparator, as a stable insertion sort.
RECURSIVE SortInsert(_, _, _, _)
SortInsert(v, datasets, x, sorted) ==
    IF sorted = <<>> THEN <<x>>
    ELSE IF compareDatasets(v, datasets, x, Head(sorted)) < 0 THEN <<x>> \o sorted
    ELSE <<Head(sorted)>> \o SortInsert(v, datasets, x, Tail(sorted))

RECURSIVE SortKeys(_, _, _)
SortKeys(v, datasets, keys) ==
    IF keys = <<>> THEN <<>>
    ELSE SortInsert(v, datasets, keys[Len(keys)], SortKeys(v, datasets, SubSeq(keys, 1, Len(keys) - 1)))

RECURSIVE InsertAll(_, _)
InsertAll(order, keys) ==
    IF keys = <<>> THEN order ELSE InsertAll(ObjInsert(order, Head(keys)), Tail(keys))

\* Reading .metadata or .kind of a null record throws a TypeError; the comparator runs
\* on every key as soon as there are two of them.
sortThrows(datasets) ==
    /\ Len(datasets.order) >= 2
    /\ \E k \in DOMAIN datasets.recs : datasets.recs[k].t = "null"

\* A mutant of sortDatasets: the copy loop stops one key early.
sortDatasetsDropsLast(v, datasets) ==
    LET keys == SortKeys(v, datasets, datasets.order)
    IN  [order |-> InsertAll(<<>>, SubSeq(keys, 1, Len(keys) - 1)), recs |-> datasets.recs]

\* sortDatasets(datasets): a new object, filled in sorted order.
sortDatasets(v, datasets) ==
    [order |-> InsertAll(<<>>, SortKeys(v, datasets, datasets.order)), recs |-> datasets.recs]

\* ---- saveMetadata / loadMetadata: yaml.dump leaves a property whose value is
\* undefined out of a mapping; everything else of the model's values is written and
\* read back as it is.
RECURSIVE dumpValue(_)
dumpValue(value) ==
    IF value.t = "object"
    THEN Obj([k \in {x \in DOMAIN value.f : value.f[x].t # "undefined"} |-> dumpValue(value.f[k])])
    ELSE value

\* js-yaml 3 refuses to dump a property whose value is undefined (skipInvalid is not
\* set); js-yaml 4 leaves the property out.
YamlVersions == {"js-yaml 3", "js-yaml 4"}

RECURSIVE hasUndefined(_)
hasUndefined(value) ==
    /\ value.t = "object"
    /\ \E k \in DOMAIN value.f : value.f[k].t = "undefined" \/ hasUndefined(value.f[k])

dumpThrows(y, datasets) ==
    /\ y = "js-yaml 3"
    /\ \E k \in DOMAIN datasets.recs : hasUndefined(datasets.recs[k])

saveMetadata(datasets) ==
    [order |-> datasets.order, recs |-> [k \in DOMAIN datasets.recs |-> dumpValue(datasets.recs[k])]]

loadMetadata(file) == file

\* ---- the inputs: src/archives/evm.json and the metadata file

\* The longest archive list of the model.
MaxArchives == 2

\* Entries of evm.json: four for the id "eth" (its name missing, null, or given, the
\* last one differing in every field), one for the id "10", one without an id.
ArchiveSet ==
    { [id |-> "eth", chainName |-> n, logoUrl |-> Str("eth.svg"), isTestnet |-> JsFalse,
       chainId |-> Num("1")] : n \in {Undef, Null, Str("Ethereum")} }
    \cup
    { [id |-> "eth", chainName |-> Str("Goerli"), logoUrl |-> Str("goerli.svg"),
       isTestnet |-> JsTrue, chainId |-> Num("5")],
      [id |-> "10", chainName |-> Str("Ten"), logoUrl |-> Null, isTestnet |-> Undef,
       chainId |-> Num("10")],
      [id |-> "", chainName |-> Str("Nameless"), logoUrl |-> Null, isTestnet |-> JsFalse,
       chainId |-> Num("0")] }

ArchiveLists == UNION {[1..n -> ArchiveSet] : n \in 0..MaxArchives}

\* Records the metadata file may hold under a key before the run (Undef: no such key).
InitialRecords(v) ==
    IF v = "nested"
    THEN { Undef, Null, EmptyObj,
           Obj([metadata |-> Str("legacy")]),
           Obj([metadata |-> Obj([display_name |-> Str("Old"), logo_url |-> Null,
                                  kind |-> Str("solana"), evm |-> Str("x")]),
                schema |-> Obj([tables |-> EmptyObj])]),
           Obj([metadata |-> Obj([type |-> Str("devnet"), evm |-> Obj([chain_id |-> Num("99")])]),
                schema |-> Null]) }
    ELSE { Undef, Null, EmptyObj,
           Obj([display_name |-> Str("Old"), logo_url |-> Null, kind |-> Str("solana"),
                evm |-> Str("x")]),
           Obj([type |-> Str("devnet"), evm |-> Obj([chain_id |-> Num("99")])]) }

\* Records of a key no archive names.
BystanderRecords(v) ==
    IF v = "nested"
    THEN {Undef, Null} \cup {Obj([metadata |-> Obj([kind |-> Str(k)])]) : k \in {"evm", "solana"}}
    ELSE {Undef, Null} \cup {Obj([kind |-> Str(k)]) : k \in {"evm", "solana"}}

DocOf(baseRecord, ethRecord) ==
    LET d1 == IF baseRecord = Undef THEN EmptyDoc ELSE DocPut(EmptyDoc, "base", baseRecord)
    IN  IF ethRecord = Undef THEN d1 ELSE DocPut(d1, "eth", ethRecord)

InitialDocs(v) == {DocOf(s, e) : s \in BystanderRecords(v), e \in InitialRecords(v)}

TransferIdle ==
    /\ variant = "nested"
    /\ overwrite = FALSE
    /\ archives = <<>>
    /\ disk = EmptyDoc
    /\ disk1 = EmptyDoc
    /\ mem = EmptyDoc
    /\ tpc = "idle"
    /\ idx = 1
    /\ run = 1
    /\ yaml = "js-yaml 4"

\* The script is started: node transfer-evm-metadata.js [--overwrite]
InitTransfer ==
    /\ variant \in Variants
    /\ overwrite \in BOOLEAN
    /\ archives \in ArchiveLists
    /\ disk \in InitialDocs(variant)
    /\ disk1 = disk
    /\ mem = EmptyDoc
    /\ tpc = "start"
    /\ idx = 1
    /\ run = 1
    /\ yaml \in YamlVersions

\* main: loadEvmArchives(), loadMetadata()
LoadFiles ==
    /\ tpc = "start"
    /\ mem' = loadMetadata(disk)
    /\ idx' = 1
    /\ tpc' = "loop"
    /\ UNCHANGED <<variant, overwrite, archives, disk, disk1, run, yaml>>

\* main: one turn of `for (const archive of archives) transferArchive(...)`
TransferNext ==
    /\ tpc = "loop"
    /\ idx <= Len(archives)
    /\ validArchive(archives[idx])
    /\ mem' = transferArchive(variant, archives[idx], mem, overwrite)
    /\ idx' = idx + 1
    /\ UNCHANGED <<variant, overwrite, archives, disk, disk1, tpc, run, yaml>>

\* transferArchive's assert on archive.id fails: the script dies, nothing is saved.
TransferRejects ==
    /\ tpc = "loop"
    /\ idx <= Len(archives)
    /\ ~validArchive(archives[idx])
    /\ tpc' = "failed"
    /\ UNCHANGED <<variant, overwrite, archives, disk, disk1, mem, idx, run, yaml>>

\* main after the loop: metadata.datasets = sortDatasets(metadata.datasets) (not in the
\* flat version), saveMetadata(metadata)
SortAndSave ==
    /\ tpc = "loop"
    /\ idx > Len(archives)
    /\ variant = "flat" \/ ~sortThrows(mem)
    /\ ~dumpThrows(yaml, mem)
    /\ mem' = IF variant = "flat" THEN mem ELSE sortDatasets(variant, mem)
    /\ disk' = saveMetadata(mem')
    /\ tpc' = "saved"
    /\ UNCHANGED <<variant, overwrite, archives, disk1, idx, run, yaml>>

\* yaml.dump throws on an undefined value: the script dies, nothing is saved.
DumpFails ==
    /\ tpc = "loop"
    /\ idx > Len(archives)
    /\ variant = "flat" \/ ~sortThrows(mem)
    /\ dumpThrows(yaml, mem)
    /\ tpc' = "failed"
    /\ UNCHANGED <<variant, overwrite, archives, disk, disk1, mem, idx, run, yaml>>

\* sortDatasets throws on a null record: the script dies, nothing is saved.
SortFails ==
    /\ tpc = "loop"
    /\ idx > Len(archives)
    /\ variant # "flat"
    /\ sortThrows(mem)
    /\ tpc' = "failed"
    /\ UNCHANGED <<variant, overwrite, archives, disk, disk1, mem, idx, run, yaml>>

\* The script is run a second time, with the same evm.json and the same flag, on the
\* file the first run left; disk1 keeps that file.
RunAgain ==
    /\ tpc \in {"saved", "failed"}
    /\ run = 1
    /\ run' = 2
    /\ disk1' = disk
    /\ mem' = EmptyDoc
    /\ idx' = 1
    /\ tpc' = "start"
    /\ UNCHANGED <<variant, overwrite, archives, disk, yaml>>

(***************************************************************************)
(* The main() of classify-datasets.js, of the contents updater and of the  *)
(* schema updater: catalog listing, per-dataset probing, loadMetadata,     *)
(* checkMissing, applyClassifications / updateContents / updateSchema,     *)
(* sortDatasets (classify-datasets only) and saveMetadata.                 *)
(***************************************************************************)

\* The longest dataset list the portal returns.
MaxCatalog == 2

\* Whether the script keeps kind, display_name, ... under record.metadata (classify-datasets,
\* schema updater) or in the record itself (contents updater, getEvmDatasetIds line 398).
Nested(p) == p # "contents"

\* ---- the response to fetchJson(PORTAL_BASE)

\* The items of the array: {dataset: "base"}, {dataset: "eth"}, and "" for an item that is
\* not an object or has no non-empty string as dataset.
CatalogItems == {"base", "eth", ""}

CatalogResponses ==
    {[t |-> "throws"], [t |-> "notArray"]}
    \cup {[t |-> "array", items |-> items] :
            items \in UNION {[1..n -> CatalogItems] : n \in 0..MaxCatalog}}

\* portalDatasets.map(item => ...dataset...).filter(name => typeof name === 'string' && name.length > 0)
RECURSIVE datasetNames(_)
datasetNames(items) ==
    IF items = <<>> THEN <<>>
    ELSE IF Head(items) = "" THEN datasetNames(Tail(items))
    ELSE <<Head(items)>> \o datasetNames(Tail(items))

\* ---- what one mapper call gives back
\* classify-datasets (lines 236-252): {error}, {skipped}, {kind} with kind a string or null.
\* The updaters (lines 514-532, 848-873): {error}, {isEvm: false}, {isEvm: true, headBlock}.
\* errorAtHead: getHead threw; errorAtProbe: a probeCapability call threw; noHead: no head
\* block, nothing probed.
ClassifyOutcomes ==
    { [t |-> "error", probed |-> FALSE], [t |-> "error", probed |-> TRUE],
      [t |-> "skipped", probed |-> FALSE],
      [t |-> "kind", kind |-> NULL, probed |-> TRUE],
      [t |-> "kind", kind |-> "evm", probed |-> TRUE],
      [t |-> "kind", kind |-> "solana", probed |-> TRUE] }

DetectOutcomes ==
    { [t |-> "error", probed |-> FALSE], [t |-> "error", probed |-> TRUE],
      [t |-> "isEvm", isEvm |-> FALSE, probed |-> FALSE],
      [t |-> "isEvm", isEvm |-> FALSE, probed |-> TRUE],
      [t |-> "isEvm", isEvm |-> TRUE, probed |-> TRUE] }

MapperOutcomes(p) == IF p = "classify" THEN ClassifyOutcomes ELSE DetectOutcomes

\* A Map: its keys in insertion order and its values.
EmptyMap2 == [order |-> <<>>, val |-> [k \in {} |-> NULL]]

MapHas(m, key) == key \in DOMAIN m.val

MapSet(m, key, value) ==
    [order |-> IF MapHas(m, key) THEN m.order ELSE Append(m.order, key),
     val |-> [k \in DOMAIN m.val \cup {key} |-> IF k = key THEN value ELSE m.val[k]]]

\* The loop over results: classifications.set(r.name, r.kind) / evmDatasets.set(r.name, ...)
RECURSIVE collect(_, _)
collect(m, results) ==
    IF results = <<>> THEN m
    ELSE LET r == Head(results)
             keep == \/ r.out.t = "kind" /\ r.out.kind # NULL
                     \/ r.out.t = "isEvm" /\ r.out.isEvm
         IN  collect(IF keep
                     THEN MapSet(m, r.name, IF r.out.t = "kind" THEN r.out.kind ELSE "evm")
                     ELSE m,
                     Tail(results))

\* errors.push(`${r.name}: ...`) for the results with an error
RECURSIVE errorNames(_)
errorNames(results) ==
    IF results = <<>> THEN <<>>
    ELSE (IF Head(results).out.t = "error" THEN <<Head(results).name>> ELSE <<>>)
         \o errorNames(Tail(results))

\* A mutant of unclassifiedNames: a null kind is not collected.
unclassifiedNamesNone(rs) == <<>>

\* unclassified.push(r.name): no error, not skipped, kind null
RECURSIVE unclassifiedNames(_)
unclassifiedNames(results) ==
    IF results = <<>> THEN <<>>
    ELSE (IF Head(results).out.t = "kind" /\ Head(results).out.kind = NULL
          THEN <<Head(results).name>> ELSE <<>>)
         \o unclassifiedNames(Tail(results))

\* ---- the metadata file and loadMetadata

\* What yaml.load gives for the file: something that is not an object, an object
\* without datasets, an object whose datasets is a scalar, or an object with a datasets
\* mapping.
NotAnObject == [t |-> "scalar"]
NoDatasets == [t |-> "object", datasets |-> Undef]
ScalarDatasets == [t |-> "object", datasets |-> Str("none")]
FileWith(datasets) == [t |-> "object", datasets |-> datasets]

HasDatasetsMapping(file) == file.t = "object" /\ "order" \in DOMAIN file.datasets

\* The asserts of loadMetadata fail. classify-datasets (lines 32-39) first puts {} in
\* place of a missing datasets; the updaters (lines 384-390, 688-694) do not.
loadThrows(p, file) ==
    \/ file.t # "object"
    \/ IF p = "classify"
       THEN file.datasets # Undef /\ ~HasDatasetsMapping(file)
       ELSE ~HasDatasetsMapping(file)

\* parsed.datasets of the object loadMetadata returns.
loadedDatasets(p, file) ==
    IF HasDatasetsMapping(file) THEN file.datasets ELSE EmptyDoc

\* ---- applyClassifications (lines 279-324)

\* First loop: if (!datasets[name]) datasets[name] = { metadata: { kind }, schema: {} }
RECURSIVE addMissing(_, _, _)
addMissing(datasets, classifications, names) ==
    IF names = <<>> THEN datasets
    ELSE LET name == Head(names)
             d1 == IF Truthy(DocGet(datasets, name)) THEN datasets
                   ELSE DocPut(datasets, name,
                               Obj([metadata |-> Obj([kind |-> Str(classifications.val[name])]),
                                    schema |-> EmptyObj]))
         IN  addMissing(d1, classifications, Tail(names))

\* if (!entry.metadata) entry.metadata = {}; entry.metadata.kind = kind
setKind(record, newKind) ==
    LET meta == IF Truthy(Get(record, "metadata")) THEN Get(record, "metadata") ELSE EmptyObj
    IN  Put(record, "metadata", Put(meta, "kind", Str(newKind)))

\* --full-update: the kind of every classified dataset is overwritten.
RECURSIVE overwriteKinds(_, _, _)
overwriteKinds(datasets, classifications, names) ==
    IF names = <<>> THEN datasets
    ELSE overwriteKinds(
             DocPut(datasets, Head(names),
                    setKind(DocGet(datasets, Head(names)), classifications.val[Head(names)])),
             classifications, Tail(names))

\* entry.metadata && entry.metadata.kind
hasKind(record) ==
    LET k == Get(Get(record, "metadata"), "kind")
    IN  k.t = "string" /\ k.v # ""

\* A mutant of fillKinds: a record that has a kind gets the classified one all the same.
RECURSIVE fillKindsOverwriting(_, _, _)
fillKindsOverwriting(datasets, classifications, keys) ==
    IF keys = <<>> THEN datasets
    ELSE LET name == Head(keys)
             d1 == IF MapHas(classifications, name)
                   THEN DocPut(datasets, name, setKind(DocGet(datasets, name), classifications.val[name]))
                   ELSE datasets
         IN  fillKindsOverwriting(d1, classifications, Tail(keys))

\* Default mode: only the records without kind get one, when one is known.
RECURSIVE fillKinds(_, _, _)
fillKinds(datasets, classifications, keys) ==
    IF keys = <<>> THEN datasets
    ELSE LET name == Head(keys)
             entry == DocGet(datasets, name)
             d1 == IF hasKind(entry) \/ ~MapHas(classifications, name) THEN datasets
                   ELSE DocPut(datasets, name, setKind(entry, classifications.val[name]))
         IN  fillKinds(d1, classifications, Tail(keys))

\* A mutant of missingKinds: nothing is ever reported missing.
missingKindsNone(datasets, classifications, keys) == <<>>

\* missing.push(name): the records without kind and without classification
RECURSIVE missingKinds(_, _, _)
missingKinds(datasets, classifications, keys) ==
    IF keys = <<>> THEN <<>>
    ELSE (IF ~hasKind(DocGet(datasets, Head(keys))) /\ ~MapHas(classifications, Head(keys))
          THEN <<Head(keys)>> ELSE <<>>)
         \o missingKinds(datasets, classifications, Tail(keys))

\* entry.metadata of a null entry throws a TypeError (default mode only: the entries the
\* --full-update loop touches were made objects by the first loop).
applyTypeError(datasets, classifications, fullUpdate) ==
    LET d1 == addMissing(datasets, classifications, classifications.order)
    IN  ~fullUpdate /\ \E k \in DOMAIN d1.recs : d1.recs[k] = Null

\* The names of the 'not found on portal' error, <<>> when it is not thrown.
applyMissing(datasets, classifications, fullUpdate) ==
    LET d1 == addMissing(datasets, classifications, classifications.order)
    IN  IF fullUpdate \/ applyTypeError(datasets, classifications, fullUpdate) THEN <<>>
        ELSE missingKinds(d1, classifications, d1.order)

\* metadata.datasets when applyClassifications returns.
applyClassifications(classifications, datasets, fullUpdate) ==
    LET d1 == addMissing(datasets, classifications, classifications.order)
    IN  IF fullUpdate THEN overwriteKinds(d1, classifications, classifications.order)
        ELSE fillKinds(d1, classifications, d1.order)

\* ---- the updaters

\* getEvmDatasetIds (lines 397-401: v.kind === 'evm'; lines 701-705: v.metadata.kind === 'evm')
RECURSIVE getEvmDatasetIds(_, _, _)
getEvmDatasetIds(p, datasets, keys) ==
    IF keys = <<>> THEN <<>>
    ELSE LET v == DocGet(datasets, Head(keys))
             k == Get(IF Nested(p) THEN Get(v, "metadata") ELSE v, "kind")
         IN  (IF k = Str("evm") THEN <<Head(keys)>> ELSE <<>>)
             \o getEvmDatasetIds(p, datasets, Tail(keys))

RECURSIVE Without(_, _)
Without(seq, set) ==
    IF seq = <<>> THEN <<>>
    ELSE (IF Head(seq) \in set THEN <<>> ELSE <<Head(seq)>>) \o Without(Tail(seq), set)

\* A mutant of checkMissing: the contents updater's comparison in the schema updater.
checkMissingEvmOnly(p, portalNames, portalEvmDatasets, datasets) ==
    Without(portalNames, Range(getEvmDatasetIds(p, datasets, datasets.order)))

\* The missing names of checkMissing: the detected EVM datasets that are no evm id of the
\* file (contents updater, lines 552-563), the portal names that are no key of the file
\* (schema updater, lines 826-837).
checkMissing(p, portalNames, portalEvmDatasets, datasets) ==
    IF p = "contents"
    THEN Without(portalEvmDatasets.order, Range(getEvmDatasetIds(p, datasets, datasets.order)))
    ELSE Without(portalNames, Range(datasets.order))

\* !metadata.datasets[id].contents (line 595); !schema || !schema.tables (line 915)
lacksProbeResult(p, record) ==
    IF p = "contents" THEN ~Truthy(Get(record, "contents"))
    ELSE ~Truthy(Get(record, "schema")) \/ ~Truthy(Get(Get(record, "schema"), "tables"))

\* A mutant of toUpdate: --full-update or not, every EVM record on the portal is taken.
toUpdateAlways(p, portalEvmDatasets, datasets, fullUpdate) ==
    LET evmIds == getEvmDatasetIds(p, datasets, datasets.order)
    IN  Without(evmIds, Range(evmIds) \ Range(portalEvmDatasets.order))

\* toUpdate of updateContents / updateSchema
toUpdate(p, portalEvmDatasets, datasets, fullUpdate) ==
    LET evmIds == getEvmDatasetIds(p, datasets, datasets.order)
        onPortal == Without(evmIds, Range(evmIds) \ Range(portalEvmDatasets.order))
    IN  IF fullUpdate THEN onPortal
        ELSE Without(onPortal, {id \in Range(onPortal) : ~lacksProbeResult(p, DocGet(datasets, id))})

\* What probeDatasetContents / probeDatasetSchema return, or that they threw.
ProbeResults(p) ==
    IF p = "contents"
    THEN {Obj([from |-> Num("0"), entities |-> Str(e)]) :
             e \in {"blocks,transactions", "blocks,transactions,logs"}}
    ELSE {Obj([tables |-> Obj([blocks |-> EmptyObj, transactions |-> EmptyObj])]),
          Obj([tables |-> Obj([blocks |-> EmptyObj, transactions |-> EmptyObj,
                               logs |-> EmptyObj])])}

ProbeField(p) == IF p = "contents" THEN "contents" ELSE "schema"

\* ---- the documents the runs start from

\* Records of a file in the nested layout (Undef: no such key).
NestedRecords ==
    { Undef, Null,
      Obj([metadata |-> Obj([display_name |-> Str("Old")])]),
      Obj([metadata |-> Obj([kind |-> Str("evm"), display_name |-> Str("Old")]),
           schema |-> EmptyObj]),
      Obj([metadata |-> Obj([kind |-> Str("evm")]),
           schema |-> Obj([tables |-> Obj([blocks |-> EmptyObj])])]),
      Obj([metadata |-> Obj([kind |-> Str("solana")]), schema |-> EmptyObj]) }

\* Records of a file in the flat layout.
FlatRecords ==
    { Undef, Null,
      Obj([display_name |-> Str("Old")]),
      Obj([kind |-> Str("evm"), display_name |-> Str("Old")]),
      Obj([kind |-> Str("evm"), contents |-> Obj([from |-> Num("7"), entities |-> Str("blocks")])]),
      Obj([kind |-> Str("solana")]) }

RecordsOf(p) == IF Nested(p) THEN NestedRecords ELSE FlatRecords

RECURSIVE DocFrom(_, _)
DocFrom(keys, recordOf) ==
    IF keys = <<>> THEN EmptyDoc
    ELSE LET d == DocFrom(SubSeq(keys, 1, Len(keys) - 1), recordOf)
             k == keys[Len(keys)]
         IN  IF recordOf[k] = Undef THEN d ELSE DocPut(d, k, recordOf[k])

MetadataFiles(p) ==
    {NotAnObject, NoDatasets, ScalarDatasets}
    \cup { FileWith(DocFrom(<<"base", "eth">>, [base |-> b, eth |-> e])) :
             b \in RecordsOf(p), e \in RecordsOf(p) }

\* ---- main()

NoFailure == [t |-> "none", names |-> <<>>]
Failure(t, failedNames) == [t |-> t, names |-> failedNames]
NoFile == [t |-> "absent"]

RunIdle ==
    /\ prog = "classify"
    /\ fullFlag = FALSE
    /\ listing = [t |-> "throws"]
    /\ yamlFile = NotAnObject
    /\ yamlFile0 = NotAnObject
    /\ portalList = <<>>
    /\ mapResults = <<>>
    /\ found = EmptyMap2
    /\ rmem = EmptyDoc
    /\ todo = <<>>
    /\ rpc = "idle"
    /\ rpos = 1
    /\ requested = FALSE
    /\ probed = FALSE
    /\ writes = 0
    /\ missingTxt = NoFile
    /\ failure = NoFailure

\* node <script> [--full-update]
InitRun ==
    /\ prog \in Scripts
    /\ fullFlag \in BOOLEAN
    /\ listing \in CatalogResponses
    /\ yamlFile \in MetadataFiles(prog)
    /\ yamlFile0 = yamlFile
    /\ portalList = <<>>
    /\ mapResults = <<>>
    /\ found = EmptyMap2
    /\ rmem = EmptyDoc
    /\ todo = <<>>
    /\ rpc = "list"
    /\ rpos = 1
    /\ requested = FALSE
    /\ probed = FALSE
    /\ writes = 0
    /\ missingTxt = NoFile
    /\ failure = NoFailure

\* The first statement of classifyAllPortalDatasets / loadPortalEvmDatasets /
\* loadPortalDatasetNames: fetchJson(PORTAL_BASE), the Array.isArray assert, the portalList.
ListDatasets ==
    /\ rpc = "list"
    /\ requested' = TRUE
    /\ IF listing.t = "array"
       THEN /\ portalList' = datasetNames(listing.items)
            /\ rpc' = IF prog = "schema" THEN "load" ELSE "map"
            /\ UNCHANGED failure
       ELSE /\ rpc' = "failed"
            /\ failure' = Failure("list", <<>>)
            /\ UNCHANGED portalList
    /\ UNCHANGED <<prog, fullFlag, listing, yamlFile, yamlFile0, mapResults, found, rmem, todo, rpos,
                   probed, writes, missingTxt>>

\* One mapper call of mapInBatches over the dataset portalList: getHead, then classifyDataset
\* or the detection probes.
MapOne ==
    /\ rpc = "map"
    /\ rpos <= Len(portalList)
    /\ \E out \in MapperOutcomes(prog) :
          /\ mapResults' = Append(mapResults, [name |-> portalList[rpos], out |-> out])
          /\ probed' = (probed \/ out.probed)
    /\ rpos' = rpos + 1
    /\ UNCHANGED <<prog, fullFlag, listing, yamlFile, yamlFile0, portalList, found, rmem, todo, rpc,
                   requested, writes, missingTxt, failure>>

\* After mapInBatches: the loop over the mapResults and the two throws.
MapDone ==
    /\ rpc = "map"
    /\ rpos > Len(portalList)
    /\ IF errorNames(mapResults) # <<>>
       THEN /\ rpc' = "failed"
            /\ failure' = Failure("probe", errorNames(mapResults))
            /\ UNCHANGED <<found, todo, rpos>>
       ELSE IF unclassifiedNames(mapResults) # <<>>
       THEN /\ rpc' = "failed"
            /\ failure' = Failure("unclassified", unclassifiedNames(mapResults))
            /\ UNCHANGED <<found, todo, rpos>>
       ELSE /\ found' = collect(EmptyMap2, mapResults)
            /\ IF prog = "schema"
               THEN /\ rpc' = "update"
                    /\ todo' = toUpdate(prog, found', rmem, fullFlag)
                    /\ rpos' = 1
               ELSE /\ rpc' = "load"
                    /\ UNCHANGED <<todo, rpos>>
            /\ UNCHANGED failure
    /\ UNCHANGED <<prog, fullFlag, listing, yamlFile, yamlFile0, portalList, mapResults, rmem,
                   requested, probed, writes, missingTxt>>

\* const metadata = loadMetadata()
LoadMetadata ==
    /\ rpc = "load"
    /\ IF loadThrows(prog, yamlFile)
       THEN /\ rpc' = "failed"
            /\ failure' = Failure("load", <<>>)
            /\ UNCHANGED rmem
       ELSE /\ rmem' = loadedDatasets(prog, yamlFile)
            /\ rpc' = IF prog = "classify" THEN "apply" ELSE "check"
            /\ UNCHANGED failure
    /\ UNCHANGED <<prog, fullFlag, listing, yamlFile, yamlFile0, portalList, mapResults, found, todo, rpos,
                   requested, probed, writes, missingTxt>>

\* checkMissing(...): missing-networks.txt and process.exit(1), or on to the next step.
CheckMissing ==
    /\ rpc = "check"
    /\ LET missing == checkMissing(prog, portalList, found, rmem)
       IN  IF missing # <<>>
           THEN /\ missingTxt' = [t |-> "lines", lines |-> missing]
                /\ rpc' = "failed"
                /\ failure' = Failure("missing", missing)
                /\ UNCHANGED <<todo, rpos>>
           ELSE /\ IF prog = "schema"
                   THEN /\ rpc' = "map"
                        /\ UNCHANGED todo
                   ELSE /\ rpc' = "update"
                        /\ todo' = toUpdate(prog, found, rmem, fullFlag)
                /\ rpos' = 1
                /\ UNCHANGED <<missingTxt, failure>>
    /\ UNCHANGED <<prog, fullFlag, listing, yamlFile, yamlFile0, portalList, mapResults, found, rmem,
                   requested, probed, writes>>

\* applyClassifications(classifications, metadata, fullFlag)
Apply ==
    /\ rpc = "apply"
    /\ rmem' = applyClassifications(found, rmem, fullFlag)
    /\ IF applyTypeError(rmem, found, fullFlag)
       THEN /\ rpc' = "failed"
            /\ failure' = Failure("TypeError", <<>>)
       ELSE IF applyMissing(rmem, found, fullFlag) # <<>>
       THEN /\ rpc' = "failed"
            /\ failure' = Failure("notFound", applyMissing(rmem, found, fullFlag))
       ELSE /\ rpc' = "save"
            /\ UNCHANGED failure
    /\ UNCHANGED <<prog, fullFlag, listing, yamlFile, yamlFile0, portalList, mapResults, found, todo, rpos,
                   requested, probed, writes, missingTxt>>

\* One mapper call of updateContents / updateSchema: the probe result is stored in the
\* record, or the error is collected.
UpdateOne ==
    /\ rpc = "update"
    /\ rpos <= Len(todo)
    /\ probed' = TRUE
    /\ \/ \E value \in ProbeResults(prog) :
             /\ rmem' = DocPut(rmem, todo[rpos],
                               Put(DocGet(rmem, todo[rpos]), ProbeField(prog), value))
             /\ UNCHANGED failure
       \/ /\ failure' = Failure("update", Append(failure.names, todo[rpos]))
          /\ UNCHANGED rmem
    /\ rpos' = rpos + 1
    /\ UNCHANGED <<prog, fullFlag, listing, yamlFile, yamlFile0, portalList, mapResults, found, todo, rpc,
                   requested, writes, missingTxt>>

\* if (errors.length > 0) throw ...
UpdateFails ==
    /\ rpc = "update"
    /\ rpos > Len(todo)
    /\ failure.t = "update"
    /\ rpc' = "failed"
    /\ UNCHANGED <<prog, fullFlag, listing, yamlFile, yamlFile0, portalList, mapResults, found, rmem, todo,
                   rpos, requested, probed, writes, missingTxt, failure>>

\* A mutant of SaveUpdated: the collected errors are not looked at before saving.
SaveUpdatedDespiteErrors ==
    /\ rpc = "update"
    /\ rpos > Len(todo)
    /\ yamlFile' = FileWith(saveMetadata(rmem))
    /\ writes' = writes + 1
    /\ rpc' = "saved"
    /\ UNCHANGED <<prog, fullFlag, listing, yamlFile0, portalList, mapResults, found, rmem, todo,
                   rpos, requested, probed, missingTxt, failure>>

\* The updaters: saveMetadata(metadata), with no sortDatasets before it.
SaveUpdated ==
    /\ rpc = "update"
    /\ rpos > Len(todo)
    /\ failure.t = "none"
    /\ yamlFile' = FileWith(saveMetadata(rmem))
    /\ writes' = writes + 1
    /\ rpc' = "saved"
    /\ UNCHANGED <<prog, fullFlag, listing, yamlFile0, portalList, mapResults, found, rmem, todo,
                   rpos, requested, probed, missingTxt, failure>>

\* classify-datasets: metadata.datasets = sortDatasets(metadata.datasets); saveMetadata(metadata)
SortSave ==
    /\ rpc = "save"
    /\ IF sortThrows(rmem)
       THEN /\ rpc' = "failed"
            /\ failure' = Failure("TypeError", <<>>)
            /\ UNCHANGED <<rmem, yamlFile, writes>>
       ELSE /\ rmem' = sortDatasets("nested", rmem)
            /\ yamlFile' = FileWith(saveMetadata(rmem'))
            /\ writes' = writes + 1
            /\ rpc' = "saved"
            /\ UNCHANGED failure
    /\ UNCHANGED <<prog, fullFlag, listing, yamlFile0, portalList, mapResults, found, todo, rpos,
                   requested, probed, missingTxt>>

(***************************************************************************)
(* mapInBatches (lines 118-125) under its callers: the mapper of           *)
(* classifyAllPortalDatasets, of updateContents and of updateSchema, the   *)
(* tasks of a batch in flight together, and the caller's statements after  *)
(* the call.                                                               *)
(***************************************************************************)

\* The longest item list and the largest batch size.
MaxItems == 3
MaxBatch == 2

ItemNames == {"base", "eth"}

\* What fetchJson(`${baseUrl}/head`) gives the classify mapper: it throws (transport
\* error, timeout, 429 exhausted), null (404), {_status, _body} (not ok), {} (empty
\* body), {number: null}, {number: 5}.
Throws == [t |-> "throws"]

HeadAnswers ==
    { Throws, Null, Obj([_status |-> Num("500")]), EmptyObj,
      Obj([number |-> Null]), Obj([number |-> Num("5")]) }

\* getHead: if (!head || head._status) return null; return head
getHead(head) == IF ~Truthy(head) \/ Truthy(Get(head, "_status")) THEN Null ELSE head

\* Number(value) for the values a head body brings
NaN == Num("NaN")

toNumber(value) ==
    IF value.t = "number" THEN value
    ELSE IF value.t = "null" THEN Num("0")
    ELSE IF value.t = "boolean" THEN (IF value = JsTrue THEN Num("1") ELSE Num("0"))
    ELSE IF value = Str("") THEN Num("0")
    ELSE NaN

\* head && Number.isFinite(Number(head.number)) ? Number(head.number) : null
headBlock(head) ==
    IF Truthy(head) /\ toNumber(Get(head, "number")) # NaN
    THEN toNumber(Get(head, "number")) ELSE Null

\* What follows the head request: classifyDataset throws or returns a kind or null;
\* probeDatasetContents / probeDatasetSchema throws or returns the value to store.
ThenAnswers(p) ==
    IF p = "classify" THEN {Throws, [t |-> "kind", kind |-> NULL], [t |-> "kind", kind |-> "evm"]}
    ELSE {Throws} \cup {[t |-> "value", value |-> v] : v \in ProbeResults(p)}

NoAnswer == [t |-> "none"]

\* The answers of the portal for one dataset: they are the same for every request.
ServerAnswers(p) ==
    IF p = "classify"
    THEN {[head |-> h, then |-> a] :
             h \in {x \in HeadAnswers : x = Throws \/ headBlock(getHead(x)) = Null},
             a \in {NoAnswer}}
         \cup {[head |-> h, then |-> a] :
                 h \in {x \in HeadAnswers : x # Throws /\ headBlock(getHead(x)) # Null},
                 a \in ThenAnswers(p)}
    ELSE {[head |-> NoAnswer, then |-> a] : a \in ThenAnswers(p)}

\* No request for the dataset is made: it is not in the list.
Unasked == [head |-> NoAnswer, then |-> NoAnswer]

NoDuplicates(seq) == \A i, j \in 1..Len(seq) : seq[i] = seq[j] => i = j

\* datasetNames as the portal lists them (a name may come twice); toUpdate of the
\* updaters, a filter of Object.keys(metadata.datasets), has each id once.
ItemLists(p) ==
    LET all == UNION {[1..n -> ItemNames] : n \in 0..MaxItems}
    IN  IF p = "classify" THEN all ELSE {s \in all : NoDuplicates(s)}

NoResult == [t |-> "pending"]

\* A mutant of batchSlice: the slice is one item longer than the step of the loop.
batchSliceLong(i, size, n) == (i + 1)..Min(i + size + 1, n)

\* items.slice(i, i + batchSize), as positions of items (i counts from 0)
batchSlice(i, size, n) == (i + 1)..Min(i + size, n)

InFlight == {t \in DOMAIN tasks : tasks[t] \in {"head", "probe"}}

\* A mutant of promiseAll: the results in the order in which the tasks completed.
promiseAllByCompletion(lo, hi) ==
    LET mine == SelectSeq(finished, LAMBDA t : t \in lo..hi)
    IN  [k \in 1..Len(mine) |-> ret[mine[k]]]

\* await Promise.all(batch.map(mapper)): the results in the order of the batch
promiseAll(lo, hi) == [k \in 1..(hi - lo + 1) |-> ret[lo + k - 1]]

BatchIdle ==
    /\ caller = "classify"
    /\ itemList = <<>>
    /\ batchSize = 1
    /\ server = [n \in ItemNames |-> Unasked]
    /\ tasks = <<>>
    /\ ret = <<>>
    /\ mapperCalls = <<>>
    /\ outList = <<>>
    /\ bi = 0
    /\ bpc = "idle"
    /\ finished = <<>>
    /\ errorList = <<>>
    /\ writeSet = {}
    /\ probedTasks = {}
    /\ bfound = EmptyMap2
    /\ bfail = "none"

\* mapInBatches(items, batchSize, mapper) is called
InitBatch ==
    /\ caller \in Scripts
    /\ itemList \in ItemLists(caller)
    /\ batchSize \in 1..MaxBatch
    /\ server \in [ItemNames -> ServerAnswers(caller) \cup {Unasked}]
    /\ \A n \in ItemNames : (server[n] = Unasked) <=> (n \notin Range(itemList))
    /\ tasks = [t \in 1..Len(itemList) |-> "waiting"]
    /\ ret = [t \in 1..Len(itemList) |-> NoResult]
    /\ mapperCalls = [t \in 1..Len(itemList) |-> 0]
    /\ outList = <<>>
    /\ bi = 0
    /\ bpc = "loop"
    /\ finished = <<>>
    /\ errorList = <<>>
    /\ writeSet = {}
    /\ probedTasks = {}
    /\ bfound = EmptyMap2
    /\ bfail = "none"
\* The top of the for loop with i < items.length: batch.map(mapper) calls the mapper for
\* every item of the slice, and each call runs to its first await.
StartBatch ==
    /\ bpc = "loop"
    /\ bi < Len(itemList)
    /\ LET batch == batchSlice(bi, batchSize, Len(itemList))
       IN  /\ tasks' = [t \in DOMAIN tasks |->
                           IF t \in batch THEN (IF caller = "classify" THEN "head" ELSE "probe")
                           ELSE tasks[t]]
           /\ mapperCalls' = [t \in DOMAIN mapperCalls |->
                                 IF t \in batch THEN mapperCalls[t] + 1 ELSE mapperCalls[t]]
    /\ bpc' = "await"
    /\ UNCHANGED <<caller, itemList, batchSize, server, ret, outList, bi, finished, errorList,
                   writeSet, probedTasks, bfound, bfail>>

\* The classify mapper (lines 233-249) after `await getHead(baseUrl)`: the catch, the
\* skip, or on to classifyDataset and its first probe.
TaskHead(t) ==
    /\ tasks[t] = "head"
    /\ LET answer == server[itemList[t]].head
       IN  IF answer = Throws
           THEN /\ ret' = [ret EXCEPT ![t] = [name |-> itemList[t],
                                              out |-> [t |-> "error", probed |-> FALSE]]]
                /\ tasks' = [tasks EXCEPT ![t] = "done"]
                /\ finished' = Append(finished, t)
                /\ UNCHANGED probedTasks
           ELSE IF headBlock(getHead(answer)) = Null
           THEN /\ ret' = [ret EXCEPT ![t] = [name |-> itemList[t],
                                              out |-> [t |-> "skipped", probed |-> FALSE]]]
                /\ tasks' = [tasks EXCEPT ![t] = "done"]
                /\ finished' = Append(finished, t)
                /\ UNCHANGED probedTasks
           ELSE /\ tasks' = [tasks EXCEPT ![t] = "probe"]
                /\ probedTasks' = probedTasks \cup {t}
                /\ UNCHANGED <<ret, finished>>
    /\ UNCHANGED <<caller, itemList, batchSize, server, mapperCalls, outList, bi, bpc, errorList,
                   writeSet, bfound, bfail>>

\* The end of a mapper call. classify (lines 245-251): classifyDataset returned or threw.
\* The updaters (lines 603-612, 923-932): the probe result is stored in the item's own
\* record, or the error is pushed on the shared errors array.
TaskProbe(t) ==
    /\ tasks[t] = "probe"
    /\ LET answer == server[itemList[t]].then
       IN  /\ ret' = [ret EXCEPT ![t] =
                        [name |-> itemList[t],
                         out |-> IF answer = Throws THEN [t |-> "error", probed |-> TRUE]
                                 ELSE IF caller = "classify"
                                 THEN [t |-> "kind", kind |-> answer.kind, probed |-> TRUE]
                                 ELSE [t |-> "undefined", probed |-> TRUE]]]
           /\ errorList' = IF caller # "classify" /\ answer = Throws
                           THEN Append(errorList, itemList[t]) ELSE errorList
           /\ writeSet' = IF caller # "classify" /\ answer # Throws
                          THEN writeSet \cup {[task |-> t, id |-> itemList[t],
                                               field |-> ProbeField(caller),
                                               value |-> answer.value]}
                          ELSE writeSet
    /\ tasks' = [tasks EXCEPT ![t] = "done"]
    /\ finished' = Append(finished, t)
    /\ UNCHANGED <<caller, itemList, batchSize, server, mapperCalls, outList, bi, bpc,
                   probedTasks, bfound, bfail>>

\* A mutant of BatchResolves: Promise.all resolves at the first task that is done.
BatchResolvesAtFirst ==
    /\ bpc = "await"
    /\ LET batch == batchSlice(bi, batchSize, Len(itemList))
       IN  /\ \E t \in batch : tasks[t] = "done"
           /\ outList' = outList \o promiseAll(bi + 1, Min(bi + batchSize, Len(itemList)))
    /\ bi' = bi + batchSize
    /\ bpc' = "loop"
    /\ UNCHANGED <<caller, itemList, batchSize, server, tasks, ret, mapperCalls, finished,
                   errorList, writeSet, probedTasks, bfound, bfail>>

\* Promise.all resolves when every task of the batch is done (no mapper rejects: each
\* has its own try/catch); out.push(...results); i += batchSize.
BatchResolves ==
    /\ bpc = "await"
    /\ LET batch == batchSlice(bi, batchSize, Len(itemList))
       IN  /\ \A t \in batch : tasks[t] = "done"
           /\ outList' = outList \o promiseAll(bi + 1, Min(bi + batchSize, Len(itemList)))
    /\ bi' = bi + batchSize
    /\ bpc' = "loop"
    /\ UNCHANGED <<caller, itemList, batchSize, server, tasks, ret, mapperCalls, finished,
                   errorList, writeSet, probedTasks, bfound, bfail>>

\* A mutant of BatchReturn: the loop is also left once a task has failed.
BatchReturnAfterFailure ==
    /\ bpc = "loop"
    /\ \/ bi >= Len(itemList)
       \/ \E t \in DOMAIN ret : ret[t] # NoResult /\ ret[t].out.t = "error"
    /\ bpc' = "returned"
    /\ UNCHANGED <<caller, itemList, batchSize, server, tasks, ret, mapperCalls, outList, bi,
                   finished, errorList, writeSet, probedTasks, bfound, bfail>>

\* i >= items.length: return out
BatchReturn ==
    /\ bpc = "loop"
    /\ bi >= Len(itemList)
    /\ bpc' = "returned"
    /\ UNCHANGED <<caller, itemList, batchSize, server, tasks, ret, mapperCalls, outList, bi,
                   finished, errorList, writeSet, probedTasks, bfound, bfail>>

\* A mutant of AfterMap: the errors are not looked at.
AfterMapIgnoresErrors ==
    /\ bpc = "returned"
    /\ bpc' = "ok"
    /\ bfound' = IF caller = "classify" THEN collect(EmptyMap2, outList) ELSE bfound
    /\ UNCHANGED <<caller, itemList, batchSize, server, tasks, ret, mapperCalls, outList, bi,
                   finished, errorList, writeSet, probedTasks, bfail>>

\* The statements after `await mapInBatches(...)`. classifyAllPortalDatasets (lines
\* 252-273): the loop over the results and the two throws. updateContents /
\* updateSchema (lines 614-618, 934-938): the throw on errors.length > 0.
AfterMap ==
    /\ bpc = "returned"
    /\ IF caller = "classify"
       THEN IF errorNames(outList) # <<>>
            THEN /\ bpc' = "thrown" /\ bfail' = "probe" /\ UNCHANGED bfound
            ELSE IF unclassifiedNames(outList) # <<>>
            THEN /\ bpc' = "thrown" /\ bfail' = "unclassified" /\ UNCHANGED bfound
            ELSE /\ bpc' = "ok" /\ bfound' = collect(EmptyMap2, outList) /\ UNCHANGED bfail
       ELSE IF errorList # <<>>
            THEN /\ bpc' = "thrown" /\ bfail' = "probe" /\ UNCHANGED bfound
            ELSE /\ bpc' = "ok" /\ UNCHANGED <<bfound, bfail>>
    /\ UNCHANGED <<caller, itemList, batchSize, server, tasks, ret, mapperCalls, outList, bi,
                   finished, errorList, writeSet, probedTasks>>

(***************************************************************************)
(* The worker setup wizard: src/worker/setup_worker.sh and its two other   *)
(* versions (src/unnamed/part_000, src/unnamed/part_001), run once or run  *)
(* again with the same DATA_DIR and KEY_PATH.                              *)
(***************************************************************************)

\* How many times the wizard is run in a row.
MaxWizardRuns == 2

\* setup_worker.sh and part_000 refuse an existing data directory (lines 43-47);
\* part_001 only warns (lines 50-53).
WizardVersions == {"setup_worker.sh", "part_000", "part_001"}

refusesExistingDir(version) == version # "part_001"

Digits == {"0", "1", "2", "3", "4", "5", "6", "7", "8", "9"}

DigitValue(c) ==
    CASE c = "0" -> 0 [] c = "1" -> 1 [] c = "2" -> 2 [] c = "3" -> 3 [] c = "4" -> 4
      [] c = "5" -> 5 [] c = "6" -> 6 [] c = "7" -> 7 [] c = "8" -> 8 [] c = "9" -> 9

\* What the operator types at the port prompt, as characters: nothing, 0, 1, 8080,
\* 65535, 65536, abc, -1, 80a, and twenty 9s.
PortInputs ==
    { <<>>, <<"0">>, <<"1">>, <<"8", "0", "8", "0">>, <<"6", "5", "5", "3", "5">>,
      <<"6", "5", "5", "3", "6">>, <<"a", "b", "c">>, <<"-", "1">>, <<"8", "0", "a">>,
      [i \in 1..20 |-> "9"] }

\* LISTEN_PORT=${LISTEN_PORT:-12345}
DEFAULT_PORT == <<"1", "2", "3", "4", "5">>

withDefault(text) == IF text = <<>> THEN DEFAULT_PORT ELSE text

\* [[ $LISTEN_PORT =~ ^[0-9]+$ ]]
matchesDigits(text) == text # <<>> /\ \A i \in 1..Len(text) : text[i] \in Digits

\* The integer `[` reads in a string of digits; beyond 19 digits it does not fit a
\* 64-bit integer and `[` fails with 'integer expression expected' (status 2).
RECURSIVE decimal(_)
decimal(text) ==
    IF text = <<>> THEN 0 ELSE 10 * decimal(SubSeq(text, 1, Len(text) - 1)) + DigitValue(text[Len(text)])

fitsInteger(text) == Len(text) <= 18

\* [ "$LISTEN_PORT" -lt 1 ] and [ "$LISTEN_PORT" -gt 65535 ]: true only when the test
\* succeeds.
testLt(text, n) == fitsInteger(text) /\ decimal(text) < n
testGt(text, n) == fitsInteger(text) /\ decimal(text) > n

\* if ! [[ ... =~ ^[0-9]+$ ]] || [ ... -lt 1 ] || [ ... -gt 65535 ]
invalidPort(text) == ~matchesDigits(text) \/ testLt(text, 1) \/ testGt(text, 65535)

NoEnvFile == [t |-> "absent"]

\* cat <<EOF > .env
envText(port, publicAddr) ==
    [t |-> "file", DATA_DIR |-> "DATA_DIR", KEY_PATH |-> "KEY_PATH", LISTEN_PORT |-> port,
     PUBLIC_ADDR |-> publicAddr]

\* PUBLIC_ADDR=/ip4/${PUBLIC_IP}/udp/${LISTEN_PORT}/quic-v1 when PUBLIC_IP is not empty
publicAddrOf(ip, port) == IF ip # "" THEN <<"/ip4/", ip, "/udp/", port, "/quic-v1">> ELSE <<>>

WizardIdle ==
    /\ wversion = "setup_worker.sh"
    /\ argc = 2
    /\ depsInstalled = TRUE
    /\ dataDirExists = FALSE
    /\ keyFileExists = FALSE
    /\ envFile = NoEnvFile
    /\ envWrites = 0
    /\ LISTEN_PORT = <<>>
    /\ wpc = "idle"
    /\ wrun = 1
    /\ exitWhy = "none"
    /\ prevExit = "none"

\* ./setup_worker.sh <DATA_DIR> <KEY_PATH>
InitWizard ==
    /\ wversion \in WizardVersions
    /\ argc \in {1, 2}
    /\ depsInstalled \in BOOLEAN
    /\ dataDirExists \in BOOLEAN
    /\ keyFileExists \in BOOLEAN
    /\ envFile = NoEnvFile
    /\ envWrites = 0
    /\ LISTEN_PORT = <<>>
    /\ wpc = "args"
    /\ wrun = 1
    /\ exitWhy = "none"
    /\ prevExit = "none"

Exit(why) == wpc' = "exit" /\ exitWhy' = why

\* if [ "$#" -ne 2 ] ... exit 1; check_deps
CheckArgsAndDeps ==
    /\ wpc = "args"
    /\ IF argc # 2 THEN Exit("usage")
       ELSE IF ~depsInstalled THEN Exit("deps")
       ELSE wpc' = "dir" /\ UNCHANGED exitWhy
    /\ UNCHANGED <<wversion, argc, depsInstalled, dataDirExists, keyFileExists, envFile,
                   envWrites, LISTEN_PORT, wrun, prevExit>>

\* if [ -d "$DATA_DIR" ] ... ; mkdir -pv "$DATA_DIR"
CheckDataDir ==
    /\ wpc = "dir"
    /\ IF dataDirExists /\ refusesExistingDir(wversion)
       THEN Exit("data directory exists") /\ UNCHANGED dataDirExists
       ELSE wpc' = "key" /\ dataDirExists' = TRUE /\ UNCHANGED exitWhy
    /\ UNCHANGED <<wversion, argc, depsInstalled, keyFileExists, envFile, envWrites,
                   LISTEN_PORT, wrun, prevExit>>

\* PEER_ID=$(docker run ... subsquid/keygen ...): the key file is made when it is not
\* there; when docker fails, set -e ends the script.
Keygen ==
    /\ wpc = "key"
    /\ \/ wpc' = "port" /\ keyFileExists' = TRUE /\ UNCHANGED exitWhy
       \/ Exit("keygen") /\ UNCHANGED keyFileExists
    /\ UNCHANGED <<wversion, argc, depsInstalled, dataDirExists, envFile, envWrites,
                   LISTEN_PORT, wrun, prevExit>>

\* read -r -p "Provide the UDP port ..." LISTEN_PORT, the default, the check
ReadPort ==
    /\ wpc = "port"
    /\ \E typed \in PortInputs :
          /\ LISTEN_PORT' = withDefault(typed)
          /\ IF invalidPort(withDefault(typed))
             THEN Exit("Invalid port number")
             ELSE wpc' = "env" /\ UNCHANGED exitWhy
    /\ UNCHANGED <<wversion, argc, depsInstalled, dataDirExists, keyFileExists, envFile,
                   envWrites, wrun, prevExit>>

\* read ... PUBLIC_IP; cat <<EOF > .env; echo "Config saved to '.env'"
WriteEnv ==
    /\ wpc = "env"
    /\ \E ip \in {"", "203.0.113.7"} :
          envFile' = envText(LISTEN_PORT, publicAddrOf(ip, LISTEN_PORT))
    /\ envWrites' = envWrites + 1
    /\ wpc' = "download"
    /\ UNCHANGED <<wversion, argc, depsInstalled, dataDirExists, keyFileExists, LISTEN_PORT,
                   wrun, exitWhy, prevExit>>

\* curl -sSf ... docker-compose.yaml; the last echo
Download ==
    /\ wpc = "download"
    /\ \/ Exit("curl")
       \/ wpc' = "done" /\ UNCHANGED exitWhy
    /\ UNCHANGED <<wversion, argc, depsInstalled, dataDirExists, keyFileExists, envFile,
                   envWrites, LISTEN_PORT, wrun, prevExit>>

\* The operator runs the wizard again with the same DATA_DIR and KEY_PATH, in the same
\* working directory.
RunWizardAgain ==
    /\ wpc \in {"exit", "done"}
    /\ wrun < MaxWizardRuns
    /\ wrun' = wrun + 1
    /\ prevExit' = IF wpc = "done" THEN "done" ELSE exitWhy
    /\ exitWhy' = "none"
    /\ argc' = 2
    /\ depsInstalled' \in BOOLEAN
    /\ envWrites' = 0
    /\ LISTEN_PORT' = <<>>
    /\ wpc' = "args"
    /\ UNCHANGED <<wversion, dataDirExists, keyFileExists, envFile>>

\* ---- SpecClassify: one call, the portal's 13 answers fixed beforehand.
InitClassify ==
    /\ \E answers \in [ProbePairs -> BOOLEAN] : ClassifyIdle(answers, {"d1"})
    /\ FetchIdle
    /\ TransferIdle
    /\ RunIdle
    /\ BatchIdle
    /\ WizardIdle

ProbeCached ==
    /\ ProbeFromCache("d1")
    /\ UNCHANGED <<fetchVars, transferVars, runVars, batchVars, wizardVars>>

ProbeFetched ==
    /\ site["d1"] \in SiteNames
    /\ ProbeOverNetwork("d1", portal[<<ClassifySites[site["d1"]].cap, ClassifySites[site["d1"]].type>>])
    /\ UNCHANGED <<fetchVars, transferVars, runVars, batchVars, wizardVars>>

NextClassify ==
    \/ ProbeCached
    \/ ProbeFetched

\* ---- SpecPair: the calls of two datasets of one batch in flight together; the
\* portal answers each probeCapability call as it likes.
InitPair ==
    /\ ClassifyIdle(NoAnswers, {})
    /\ FetchIdle
    /\ TransferIdle
    /\ RunIdle
    /\ BatchIdle
    /\ WizardIdle

StartTask ==
    /\ \E d \in Datasets : ClassifyStart(d)
    /\ UNCHANGED <<fetchVars, transferVars, runVars, batchVars, wizardVars>>

TaskProbeCached ==
    /\ \E d \in Datasets : ProbeFromCache(d)
    /\ UNCHANGED <<fetchVars, transferVars, runVars, batchVars, wizardVars>>

TaskProbeFetched ==
    /\ \E d \in Datasets, answer \in BOOLEAN : ProbeOverNetwork(d, answer)
    /\ UNCHANGED <<fetchVars, transferVars, runVars, batchVars, wizardVars>>

NextPair ==
    \/ StartTask
    \/ TaskProbeCached
    \/ TaskProbeFetched

\* ---- SpecFetch: one call of fetchJson or probeCapability, the portal answering
\* each request with any status, Retry-After header and body.
InitFetchCall ==
    /\ ClassifyIdle(NoAnswers, {})
    /\ InitFetch
    /\ TransferIdle
    /\ RunIdle
    /\ BatchIdle
    /\ WizardIdle

FetchOther == RespondOther /\ UNCHANGED <<classifyVars, transferVars, runVars, batchVars, wizardVars>>
Fetch429Retry == Respond429Retry /\ UNCHANGED <<classifyVars, transferVars, runVars, batchVars, wizardVars>>
Fetch429Last == Respond429Last /\ UNCHANGED <<classifyVars, transferVars, runVars, batchVars, wizardVars>>
SleepOver == Wake /\ UNCHANGED <<classifyVars, transferVars, runVars, batchVars, wizardVars>>
JsonReturn == FetchJsonReturn /\ UNCHANGED <<classifyVars, transferVars, runVars, batchVars, wizardVars>>
ProbeReturn == ProbeCapabilityReturn /\ UNCHANGED <<classifyVars, transferVars, runVars, batchVars, wizardVars>>
CallThrows == ErrorPropagates /\ UNCHANGED <<classifyVars, transferVars, runVars, batchVars, wizardVars>>

NextFetch ==
    \/ FetchOther
    \/ Fetch429Retry
    \/ Fetch429Last
    \/ SleepOver
    \/ JsonReturn
    \/ ProbeReturn
    \/ CallThrows

\* ---- SpecTransfer: the transfer script run twice in a row.
InitTransferRuns ==
    /\ ClassifyIdle(NoAnswers, {})
    /\ FetchIdle
    /\ InitTransfer
    /\ RunIdle
    /\ BatchIdle
    /\ WizardIdle

Load == LoadFiles /\ UNCHANGED <<classifyVars, fetchVars, runVars, batchVars, wizardVars>>
Transfer == TransferNext /\ UNCHANGED <<classifyVars, fetchVars, runVars, batchVars, wizardVars>>
Reject == TransferRejects /\ UNCHANGED <<classifyVars, fetchVars, runVars, batchVars, wizardVars>>
Save == SortAndSave /\ UNCHANGED <<classifyVars, fetchVars, runVars, batchVars, wizardVars>>
SortError == SortFails /\ UNCHANGED <<classifyVars, fetchVars, runVars, batchVars, wizardVars>>
DumpError == DumpFails /\ UNCHANGED <<classifyVars, fetchVars, runVars, batchVars, wizardVars>>
SecondRun == RunAgain /\ UNCHANGED <<classifyVars, fetchVars, runVars, batchVars, wizardVars>>

NextTransfer ==
    \/ Load
    \/ Transfer
    \/ Reject
    \/ Save
    \/ SortError
    \/ DumpError
    \/ SecondRun

\* ---- SpecRun: one run of classify-datasets.js, the contents updater or the schema
\* updater, from the command line to the exit.
InitScriptRun ==
    /\ ClassifyIdle(NoAnswers, {})
    /\ FetchIdle
    /\ TransferIdle
    /\ InitRun
    /\ BatchIdle
    /\ WizardIdle

List == ListDatasets /\ UNCHANGED <<classifyVars, fetchVars, transferVars, batchVars, wizardVars>>
Map == MapOne /\ UNCHANGED <<classifyVars, fetchVars, transferVars, batchVars, wizardVars>>
Mapped == MapDone /\ UNCHANGED <<classifyVars, fetchVars, transferVars, batchVars, wizardVars>>
LoadYaml == LoadMetadata /\ UNCHANGED <<classifyVars, fetchVars, transferVars, batchVars, wizardVars>>
Check == CheckMissing /\ UNCHANGED <<classifyVars, fetchVars, transferVars, batchVars, wizardVars>>
ApplyKinds == Apply /\ UNCHANGED <<classifyVars, fetchVars, transferVars, batchVars, wizardVars>>
Update == UpdateOne /\ UNCHANGED <<classifyVars, fetchVars, transferVars, batchVars, wizardVars>>
UpdateError == UpdateFails /\ UNCHANGED <<classifyVars, fetchVars, transferVars, batchVars, wizardVars>>
SaveYaml == SaveUpdated /\ UNCHANGED <<classifyVars, fetchVars, transferVars, batchVars, wizardVars>>
SortSaveYaml == SortSave /\ UNCHANGED <<classifyVars, fetchVars, transferVars, batchVars, wizardVars>>

NextRun ==
    \/ List
    \/ Map
    \/ Mapped
    \/ LoadYaml
    \/ Check
    \/ ApplyKinds
    \/ Update
    \/ UpdateError
    \/ SaveYaml
    \/ SortSaveYaml

\* ---- SpecBatch: one call of mapInBatches with its tasks in flight together.
InitBatchCall ==
    /\ ClassifyIdle(NoAnswers, {})
    /\ FetchIdle
    /\ TransferIdle
    /\ RunIdle
    /\ InitBatch
    /\ WizardIdle

NextBatchStarts == StartBatch /\ UNCHANGED <<classifyVars, fetchVars, transferVars, runVars, wizardVars>>
HeadAnswered ==
    /\ \E t \in DOMAIN tasks : TaskHead(t)
    /\ UNCHANGED <<classifyVars, fetchVars, transferVars, runVars, wizardVars>>
TaskEnds ==
    /\ \E t \in DOMAIN tasks : TaskProbe(t)
    /\ UNCHANGED <<classifyVars, fetchVars, transferVars, runVars, wizardVars>>
BatchAwaited == BatchResolves /\ UNCHANGED <<classifyVars, fetchVars, transferVars, runVars, wizardVars>>
MapReturns == BatchReturn /\ UNCHANGED <<classifyVars, fetchVars, transferVars, runVars, wizardVars>>
CallerGoesOn == AfterMap /\ UNCHANGED <<classifyVars, fetchVars, transferVars, runVars, wizardVars>>

NextBatch ==
    \/ NextBatchStarts
    \/ HeadAnswered
    \/ TaskEnds
    \/ BatchAwaited
    \/ MapReturns
    \/ CallerGoesOn

\* ---- SpecScripts: the transfer script run twice, or one run of classify-datasets
\* or of an updater.
InitScripts == InitTransferRuns \/ InitScriptRun

NextScripts == NextTransfer \/ NextRun

\* ---- SpecWizard: the setup wizard, run and run again.
InitWizardRuns ==
    /\ ClassifyIdle(NoAnswers, {})
    /\ FetchIdle
    /\ TransferIdle
    /\ RunIdle
    /\ BatchIdle
    /\ InitWizard

WizardChecks == CheckArgsAndDeps /\ UNCHANGED <<classifyVars, fetchVars, transferVars, runVars, batchVars>>
WizardDataDir == CheckDataDir /\ UNCHANGED <<classifyVars, fetchVars, transferVars, runVars, batchVars>>
WizardKeygen == Keygen /\ UNCHANGED <<classifyVars, fetchVars, transferVars, runVars, batchVars>>
WizardPort == ReadPort /\ UNCHANGED <<classifyVars, fetchVars, transferVars, runVars, batchVars>>
WizardEnv == WriteEnv /\ UNCHANGED <<classifyVars, fetchVars, transferVars, runVars, batchVars>>
WizardDownload == Download /\ UNCHANGED <<classifyVars, fetchVars, transferVars, runVars, batchVars>>
WizardAgain == RunWizardAgain /\ UNCHANGED <<classifyVars, fetchVars, transferVars, runVars, batchVars>>

NextWizard ==
    \/ WizardChecks
    \/ WizardDataDir
    \/ WizardKeygen
    \/ WizardPort
    \/ WizardEnv
    \/ WizardDownload
    \/ WizardAgain

(***************************************************************************)
(* Specifications                                                          *)
(***************************************************************************)

vars == <<classifyVars, fetchVars, transferVars, runVars, batchVars, wizardVars>>

SpecClassify == InitClassify /\ [][NextClassify]_vars

SpecPair == InitPair /\ [][NextPair]_vars

SpecFetch == InitFetchCall /\ [][NextFetch]_vars

SpecTransfer == InitTransferRuns /\ [][NextTransfer]_vars

SpecRun == InitScriptRun /\ [][NextRun]_vars

SpecScripts == InitScripts /\ [][NextScripts]_vars

SpecWizard == InitWizardRuns /\ [][NextWizard]_vars

SpecBatch == InitBatchCall /\ [][NextBatch]_vars

\* Every mapper call terminates (each request has a timeout, the 429 retries are
\* bounded) and the event loop runs whatever is ready.
SpecBatchFair == SpecBatch /\ WF_vars(NextBatch)

(***************************************************************************)
(* Properties                                                              *)
(***************************************************************************)

\* The ordered rule table of the classifier: a rule matches when every pair of
\* `all` is present and no pair of `none` is.
RuleTable ==
    << [kind |-> "evm", all |-> {<<"transactions", "evm">>},
        none |-> {<<"instructions", "solana">>, <<"events", "starknet">>,
                  <<"receipts", "fuel">>, <<"internalTransactions", "tron">>}],
       [kind |-> "solana", all |-> {<<"instructions", "solana">>, <<"tokenBalances", "solana">>},
        none |-> {}],
       [kind |-> "substrate", all |-> {<<"events", "substrate">>, <<"calls", "substrate">>},
        none |-> {}],
       [kind |-> "fuel", all |-> {<<"receipts", "fuel">>, <<"inputs", "fuel">>}, none |-> {}],
       [kind |-> "tron", all |-> {<<"transactions", "tron">>, <<"internalTransactions", "tron">>},
        none |-> {}],
       [kind |-> "hyperliquidFills", all |-> {<<"fills", "hyperliquidFills">>}, none |-> {}],
       [kind |-> "hyperliquidReplicaCmds", all |-> {<<"orderActions", "hyperliquidReplicaCmds">>},
        none |-> {}],
       [kind |-> "bitcoin", all |-> {<<"inputs", "bitcoin">>}, none |-> {<<"receipts", "fuel">>}] >>

RuleMatches(rule, outcomes) ==
    /\ \A p \in rule.all : outcomes[p]
    /\ \A p \in rule.none : ~outcomes[p]

FirstMatch(outcomes) ==
    LET hits == {i \in 1..Len(RuleTable) : RuleMatches(RuleTable[i], outcomes)}
    IN  IF hits = {} THEN NULL
        ELSE RuleTable[CHOOSE i \in hits : \A j \in hits : i <= j].kind

\* C1: for every assignment of the 13 probe outcomes, classifyDataset returns the kind
\* of the first rule of the ordered table that matches the outcomes, and null when
\* none does; so the result is a function of the outcomes alone.
C1_FirstMatchingRule ==
    site["d1"] = "done" => kind["d1"] = FirstMatch(portal)

\* A call that failed the evm rule on one of its negations and was classified by the
\* last rule of the table.
C1_Witness ==
    /\ site["d1"] = "done"
    /\ kind["d1"] = "bitcoin"
    /\ portal[<<"transactions", "evm">>]
    /\ portal[<<"internalTransactions", "tron">>]

\* C2: transactions(evm) present and instructions(solana), events(starknet),
\* receipts(fuel), internalTransactions(tron) all absent: the call returns 'evm',
\* whatever the other eight probes answer.
C2_EvmScenario ==
    ( /\ site["d1"] = "done"
      /\ portal[<<"transactions", "evm">>]
      /\ ~portal[<<"instructions", "solana">>]
      /\ ~portal[<<"events", "starknet">>]
      /\ ~portal[<<"receipts", "fuel">>]
      /\ ~portal[<<"internalTransactions", "tron">>] )
    => kind["d1"] = "evm"

\* An evm dataset that would also match the tron, hyperliquid and bitcoin probes
\* of later rules.
C2_Witness ==
    /\ site["d1"] = "done"
    /\ kind["d1"] = "evm"
    /\ portal[<<"transactions", "tron">>]
    /\ portal[<<"fills", "hyperliquidFills">>]
    /\ portal[<<"inputs", "bitcoin">>]

\* C3: instructions(solana) and tokenBalances(solana) both present: the call returns
\* 'solana', whatever the other probes, transactions(evm) included, answer.
C3_SolanaScenario ==
    ( /\ site["d1"] = "done"
      /\ portal[<<"instructions", "solana">>]
      /\ portal[<<"tokenBalances", "solana">>] )
    => kind["d1"] = "solana"

\* A solana dataset that answers transactions(evm) too: the evm rule was entered
\* and left on its instructions(solana) test.
C3_Witness ==
    /\ site["d1"] = "done"
    /\ kind["d1"] = "solana"
    /\ portal[<<"transactions", "evm">>]
    /\ evals["d1"][<<"instructions", "solana">>] = 2

\* C4: within one classifyDataset call each (capability, type) pair goes to the
\* network at most once (one probeCapability call), however often the rules evaluate
\* it, and a call's cache holds exactly the pairs that this call itself has fetched:
\* nothing in it comes from another dataset's call.
C4_ProbeSentOncePerCall ==
    \A d \in Datasets, p \in ProbePairs :
        /\ sent[d][p] <= 1
        /\ sent[d][p] <= evals[d][p]
        /\ (sent[d][p] = 1) <=> cacheHas(cache[d], p[1], p[2])

\* Both calls have fetched receipts(fuel) themselves and got different answers, and
\* the first call has evaluated it a second time without a second request.
C4_Witness ==
    LET p == <<"receipts", "fuel">>
    IN  /\ sent["d1"][p] = 1
        /\ sent["d2"][p] = 1
        /\ evals["d1"][p] >= 2
        /\ cacheGet(cache["d1"], p[1], p[2]) # cacheGet(cache["d2"], p[1], p[2])

\* The floor of each script: 1000 ms in classify-datasets and the schema updater, 0 ms in
\* the contents updater.
C5_Floor(s) == IF s = "contents" THEN 0 ELSE 1000

\* C5: a call answered with k <= MAX_429_RETRIES consecutive 429 responses and then
\* another response has issued exactly k + 1 requests, has slept exactly k times, once
\* after each 429, and returns that last response; and every sleep, whatever the
\* Retry-After header was (absent, empty, a number, zero or negative, an HTTP-date in
\* the past or the future, unparsable), lasts at least the script's floor.
C5_RetryThenReturn ==
    /\ fpc \in {"returned", "done"} =>
        /\ n429 <= MAX_429_RETRIES
        /\ requests = n429 + 1
        /\ waits = n429
        /\ res.seq = requests
        /\ res.status # 429
        /\ outcome = [t |-> "returned", res |-> res]
    /\ (n429 <= MAX_429_RETRIES /\ fpc \notin {"fetch", "sleep"}) => outcome.t = "returned"
    /\ fpc = "sleep" => (waits = n429 /\ lastDelay >= C5_Floor(script))
    /\ waits > 0 => minWait >= C5_Floor(script)

\* The schema updater got MAX_429_RETRIES 429 responses, slept after each, the
\* shortest sleep being the floor, and then returned a 200.
C5_Witness ==
    /\ fpc = "returned"
    /\ script = "schema"
    /\ n429 = MAX_429_RETRIES
    /\ minWait = 1000
    /\ res.status = 200

\* C6 as amended: MAX_429_RETRIES + 1 consecutive 429 responses, and nothing else, make
\* the call fail; it has then issued exactly MAX_429_RETRIES + 1 requests and slept
\* MAX_429_RETRIES times (not after the last 429), and the error carries the first 500
\* characters of the last 429 response's body; a 429 response is never returned.
C6_ExhaustedThrowsBodyPrefix ==
    /\ (fpc \in {"thrown", "failed"}) <=> (n429 = MAX_429_RETRIES + 1)
    /\ fpc \in {"thrown", "failed"} =>
        /\ requests = MAX_429_RETRIES + 1
        /\ waits = MAX_429_RETRIES
        /\ res.seq = requests
        /\ res.status = 429
        /\ outcome.t = "thrown"
        /\ outcome.attempts = MAX_429_RETRIES + 1
        /\ outcome.body = Slice(res.body, BODY_SLICE)
    /\ outcome.t = "returned" => outcome.res.status # 429
    /\ callResult.t = "threw" => callResult.error = outcome

\* The call has failed on its seventh 429, whose body is longer than 500 characters.
C6_Witness ==
    /\ fpc = "failed"
    /\ n429 = MAX_429_RETRIES + 1
    /\ Len(res.body) > BODY_SLICE

\* C6 as stated: the error carries the body of the last 429 response.
C6_ExhaustedThrowsWholeBody ==
    fpc \in {"thrown", "failed"} =>
        /\ requests = MAX_429_RETRIES + 1
        /\ waits = MAX_429_RETRIES
        /\ outcome.t = "thrown"
        /\ outcome.body = res.body

\* C7: a response whose status is not 429 ends the retry loop at once (no further
\* request) and is returned unchanged, never thrown; fetchJson turns a 404 into null
\* and any other status outside 200-299 into {_status, _body}.
C7_OtherStatusReturned ==
    /\ (res.seq > 0 /\ res.status # 429) =>
        /\ fpc \in {"returned", "done"}
        /\ res.seq = requests
        /\ outcome = [t |-> "returned", res |-> res]
    /\ fpc \in {"thrown", "failed"} => res.status = 429
    /\ (fpc = "done" /\ call.fn = "fetchJson") =>
        /\ res.status = 404 => callResult = [t |-> "null"]
        /\ (res.status # 404 /\ (res.status < 200 \/ res.status > 299)) =>
              callResult = [t |-> "status", status |-> res.status, body |-> res.body]
        /\ (res.status >= 200 /\ res.status <= 299) => callResult.t \in {"object", "raw"}

\* fetchJson got a 404 after two 429 responses and gave null.
C7_Witness ==
    /\ fpc = "done"
    /\ call.fn = "fetchJson"
    /\ n429 = 2
    /\ res.status = 404
    /\ callResult = [t |-> "null"]

\* C8: probeCapability returns true exactly when the final response has status 200
\* or 204, and every request it sends has fromBlock = toBlock = the reference block,
\* type = the probe type ('evm' when the argument is left out) and one capability key.
C8_ProbeCapability ==
    call.fn = "probeCapability" =>
        /\ fpc = "done" =>
              callResult = [t |-> "boolean", value |-> (res.status \in {200, 204})]
        /\ requests > 0 =>
              /\ reqBody["fromBlock"] = <<"number", call.block>>
              /\ reqBody["toBlock"] = <<"number", call.block>>
              /\ reqBody["type"] =
                    <<"string", IF call.typeArg = UNDEFINED THEN "evm" ELSE call.typeArg>>
              /\ DOMAIN reqBody \ {"type", "fromBlock", "toBlock"} = {call.capability}
              /\ reqBody[call.capability] = <<"array", 1>>

\* A probe of the contents updater, its type left to the default, answered with a 204
\* after a 429: the capability is present.
C8_Witness ==
    /\ fpc = "done"
    /\ call.fn = "probeCapability"
    /\ call.typeArg = UNDEFINED
    /\ call.block = 17
    /\ n429 = 1
    /\ res.status = 204
    /\ callResult = [t |-> "boolean", value |-> TRUE]

\* ---- the overwrite policy of transferArchive

C9_Fields == {"display_name", "logo_url", "type", "chain_id"}

\* The value a field of the record of id has in datasets (Undef when there is none):
\* display_name, logo_url and type sit in the record (in its metadata in the nested
\* version), chain_id in the evm object next to them.
C9_Value(v, datasets, id, field) ==
    LET record == DocGet(datasets, id)
        holder == IF v = "nested" THEN Get(record, "metadata") ELSE record
    IN  IF field = "chain_id" THEN Get(Get(holder, "evm"), "chain_id") ELSE Get(holder, field)

\* The value transferArchive has for a field.
C9_Source(archive, field) ==
    CASE field = "display_name" -> archive.chainName
      [] field = "logo_url" -> archive.logoUrl
      [] field = "type" -> networkType(archive)
      [] field = "chain_id" -> archive.chainId

\* C9: one transferArchive call leaves each of display_name, logo_url, type and
\* evm.chain_id at the archive's value when overwrite is set or the existing value is
\* undefined or null, and at its existing value otherwise.
C9_OverwritePolicy ==
    [][ (tpc = "loop" /\ idx' = idx + 1) =>
            \A field \in C9_Fields :
                LET old == C9_Value(variant, mem, archives[idx].id, field)
                    new == C9_Value(variant, mem', archives[idx].id, field)
                IN  new = IF overwrite \/ old \in {Undef, Null}
                          THEN C9_Source(archives[idx], field)
                          ELSE old ]_vars

\* Without --overwrite, a record that had a display_name and a null logo_url keeps the
\* first and gets the second, the type and the chain id from the archive.
C9_Witness ==
    /\ tpc = "loop"
    /\ idx = 2
    /\ run = 1
    /\ ~overwrite
    /\ archives[1].id = "eth"
    /\ archives[1].chainName = Str("Ethereum")
    /\ C9_Value(variant, mem, "eth", "display_name") = Str("Old")
    /\ C9_Value(variant, mem, "eth", "logo_url") = Str("eth.svg")
    /\ C9_Value(variant, mem, "eth", "type") = Str("mainnet")
    /\ C9_Value(variant, mem, "eth", "chain_id") = Num("1")

\* C10: without --overwrite, the second run of the script over the same archive list
\* leaves the metadata file exactly as the first run left it (records, fields, values
\* and key order), whether the runs saved or died.
C10_MergeIdempotent ==
    (run = 2 /\ tpc \in {"saved", "failed"} /\ ~overwrite) => disk = disk1

\* Two different archives with the same id were merged twice next to another evm record,
\* and the file was saved both times.
C10_Witness ==
    /\ run = 2
    /\ tpc = "saved"
    /\ ~overwrite
    /\ Len(archives) = 2
    /\ archives[1].id = "eth"
    /\ archives[2].id = "eth"
    /\ archives[1].chainName = Null
    /\ archives[2].chainName = Str("Goerli")
    /\ disk.order = <<"base", "eth">>
    /\ C9_Value(variant, disk, "eth", "display_name") = Str("Goerli")
    /\ C9_Value(variant, disk, "eth", "chain_id") = Num("1")
    /\ disk = disk1

\* C11: with --overwrite, after one transferArchive call the record of archive.id has
\* display_name = archive.chainName, logo_url = archive.logoUrl, evm.chain_id =
\* archive.chainId and type = 'mainnet' when archive.isTestnet is false, 'testnet'
\* otherwise, whatever it held before.
C11_OverwriteTotality ==
    [][ (tpc = "loop" /\ idx' = idx + 1 /\ overwrite) =>
            LET archive == archives[idx]
                value(field) == C9_Value(variant, mem', archive.id, field)
            IN  /\ value("display_name") = archive.chainName
                /\ value("logo_url") = archive.logoUrl
                /\ value("chain_id") = archive.chainId
                /\ value("type") = IF archive.isTestnet = JsFalse
                                   THEN Str("mainnet") ELSE Str("testnet") ]_vars

\* With --overwrite, a record that had the name "Old" and the type "devnet" somewhere
\* was given the second archive's values.
C11_Witness ==
    /\ tpc = "loop"
    /\ idx = 3
    /\ run = 1
    /\ overwrite
    /\ "eth" \in DOMAIN disk.recs
    /\ disk.recs["eth"] # Null
    /\ archives[1].chainName = Str("Ethereum")
    /\ archives[2].chainName = Str("Goerli")
    /\ C9_Value(variant, mem, "eth", "display_name") = Str("Goerli")
    /\ C9_Value(variant, mem, "eth", "logo_url") = Str("goerli.svg")
    /\ C9_Value(variant, mem, "eth", "type") = Str("testnet")
    /\ C9_Value(variant, mem, "eth", "chain_id") = Num("5")

\* The kind of the record of id in datasets (Undef when there is none).
C12_Kind(v, datasets, id) ==
    LET record == DocGet(datasets, id)
    IN  Get(IF v = "nested" THEN Get(record, "metadata") ELSE record, "kind")

\* C12: without --overwrite, a record whose kind is neither undefined nor null has the
\* same kind after transferArchive.
C12_KindKept ==
    [][ (tpc = "loop" /\ idx' = idx + 1 /\ ~overwrite
             /\ C12_Kind(variant, mem, archives[idx].id) \notin {Undef, Null}) =>
            C12_Kind(variant, mem', archives[idx].id) = C12_Kind(variant, mem, archives[idx].id)
      ]_vars

\* ---- the order of the saved document

\* The kind of a record as text, an absent, null or empty kind counting as "".
C14_KindText(nested, record) ==
    LET k == Get(IF nested THEN Get(record, "metadata") ELSE record, "kind")
    IN  IF k.t = "string" THEN k.v ELSE ""

\* (kind, key) of position i is not after (kind, key) of position j.
C14_NotAfter(nested, datasets, i, j) ==
    LET ki == C14_KindText(nested, datasets.recs[datasets.order[i]])
        kj == C14_KindText(nested, datasets.recs[datasets.order[j]])
    IN  IF ki # kj THEN StrLess(ki, kj) ELSE ~StrLess(datasets.order[j], datasets.order[i])

C14_Sorted(nested, datasets) ==
    \A i, j \in 1..Len(datasets.order) : i < j => C14_NotAfter(nested, datasets, i, j)

\* C14: a run of the transfer script that saves the metadata file leaves its records in
\* non-decreasing (kind, key) order.
C14_SavedSorted ==
    tpc = "saved" => C14_Sorted(variant = "nested", disk)

\* ---- applyClassifications in default mode

\* The record has a kind that is a non-empty string.
C13_HasKind(record) ==
    /\ Get(Get(record, "metadata"), "kind").t = "string"
    /\ Get(Get(record, "metadata"), "kind").v # ""

\* new is old with metadata.kind set to newKind and nothing else changed.
C13_OnlyKindSet(old, new, newKind) ==
    /\ new.t = "object"
    /\ DOMAIN new.f = DOMAIN old.f \cup {"metadata"}
    /\ \A field \in DOMAIN old.f \ {"metadata"} : new.f[field] = old.f[field]
    /\ new.f["metadata"].t = "object"
    /\ DOMAIN new.f["metadata"].f =
          {"kind"} \cup (IF IsObject(Get(old, "metadata")) THEN DOMAIN old.f["metadata"].f ELSE {})
    /\ \A field \in DOMAIN new.f["metadata"].f :
          new.f["metadata"].f[field] =
              IF field = "kind" THEN Str(newKind) ELSE old.f["metadata"].f[field]

C15_SortIdempotent ==
    [][ (tpc = "loop" /\ tpc' = "saved" /\ variant # "flat") =>
            /\ Len(mem'.order) = Len(mem.order)
            /\ Range(mem'.order) = Range(mem.order)
            /\ DOMAIN mem'.recs = Range(mem.order)
            /\ \A key \in Range(mem.order) : mem'.recs[key] = mem.recs[key]
            /\ sortDatasets(variant, mem').order = mem'.order ]_vars

\* The file had base (solana) before eth; with the new record "10" the sorted file has
\* the keys in another order than the object that was sorted.
C15_Witness ==
    /\ tpc = "saved"
    /\ run = 1
    /\ variant # "flat"
    /\ disk1.order = <<"base", "eth">>
    /\ mem.order = <<"10", "eth", "base">>
    /\ disk.order = mem.order

\* C16: a run of classify-datasets or of an updater writes the metadata file at most
\* once, and only when every mapper call, the classification, checkMissing and the merge
\* are over without a probe error, an unclassified dataset or a missing dataset; a run
\* that fails leaves the file as it found it.
C16_NoPartialSave ==
    /\ writes <= 1
    /\ writes = 1 =>
          /\ rpc = "saved"
          /\ failure = NoFailure
          /\ missingTxt = NoFile
          /\ Len(mapResults) = Len(portalList)
          /\ errorNames(mapResults) = <<>>
          /\ unclassifiedNames(mapResults) = <<>>
          /\ prog # "classify" => rpos > Len(todo)
    /\ rpc = "failed" => (writes = 0 /\ yamlFile = yamlFile0)
    /\ rpc \notin {"saved", "failed"} => yamlFile = yamlFile0

\* An updater stored one probe result in memory, another probe failed: the run died and
\* the file is as it was.
C16_Witness ==
    /\ rpc = "failed"
    /\ failure.t = "update"
    /\ HasDatasetsMapping(yamlFile)
    /\ rmem # yamlFile.datasets
    /\ yamlFile = yamlFile0
    /\ writes = 0

\* The metadata document is not an object, or has no datasets object.
C17_Malformed(document) == ~HasDatasetsMapping(document)

\* C17: in a run on a malformed metadata document no network request is issued and
\* nothing is saved: the run fails when the document is loaded.
C17_MalformedFailsFirst ==
    C17_Malformed(yamlFile0) =>
        /\ ~requested
        /\ rpc # "saved"
        /\ rpc = "failed" => failure.t = "load"

\* The mapper is done with every listed dataset.
C18_AllMapped == prog = "classify" /\ rpc \notin {"idle", "list", "map"}

\* C18 as amended: when classifyDataset gives null for a listed dataset, the run of
\* classify-datasets fails, with or without --full-update, and the file stays as it
\* was; in a run that saves, every listed dataset has a classification or was skipped
\* for want of a head block.
C18_UnclassifiedFailsOrSkipped ==
    C18_AllMapped =>
        /\ (\E i \in 1..Len(mapResults) :
                mapResults[i].out.t = "kind" /\ mapResults[i].out.kind = NULL)
              => /\ rpc = "failed"
                 /\ failure.t \in {"probe", "unclassified"}
                 /\ yamlFile = yamlFile0
        /\ rpc = "saved" =>
              \A i \in 1..Len(mapResults) :
                  \/ mapResults[i].out.t = "skipped"
                  \/ /\ mapResults[i].out.t = "kind"
                     /\ MapHas(found, mapResults[i].name)

\* classify-datasets died of a dataset without kind in --full-update mode, nothing else
\* being wrong.
C18_Witness ==
    /\ prog = "classify"
    /\ fullFlag
    /\ rpc = "failed"
    /\ failure = Failure("unclassified", <<"eth">>)
    /\ Len(mapResults) = 2
    /\ mapResults[1].out.t = "skipped"
    /\ yamlFile = yamlFile0

\* C18 as stated: in a run that saves, every dataset of the remote list has a
\* classification.
C18_EveryListedClassified ==
    (prog = "classify" /\ rpc = "saved") =>
        \A i \in 1..Len(portalList) : MapHas(found, portalList[i])

\* ---- missing-networks.txt

\* checkMissing has run: the list was fetched, the document was loaded, and in the
\* contents updater the detection went through.
C19_Checked ==
    /\ prog \in {"schema", "contents"}
    /\ rpc \in {"map", "update", "saved", "failed"}
    /\ failure.t \notin {"list", "load"}
    /\ prog = "contents" => (rpc # "map" /\ failure.t # "probe")

\* The names of seq that are not in set, in the order of seq.
C19_NotIn(seq, set) == SelectSeq(seq, LAMBDA name : name \notin set)

\* The evm records of the file the contents updater loaded.
C19_EvmKeys == {key \in DOMAIN yamlFile0.datasets.recs :
                   Get(yamlFile0.datasets.recs[key], "kind") = Str("evm")}

\* The names checkMissing is to report: listed names that are no key of the document
\* (schema updater), detected EVM datasets without an evm record (contents updater).
C19_Missing ==
    IF prog = "schema" THEN C19_NotIn(portalList, DOMAIN yamlFile0.datasets.recs)
    ELSE C19_NotIn(found.order, C19_EvmKeys)

\* What C19 says of both updaters but the probes.
C19_MissingFile ==
    /\ missingTxt # NoFile <=> C19_Missing # <<>>
    /\ missingTxt # NoFile =>
          /\ rpc = "failed"
          /\ failure.t = "missing"
          /\ missingTxt = [t |-> "lines", lines |-> C19_Missing]
          /\ writes = 0
          /\ yamlFile = yamlFile0
          /\ todo = <<>>

\* C19 as amended: missing-networks.txt is written, and the run exits non-zero, exactly
\* when a listed name is no key of the document (schema updater) or a detected EVM
\* dataset has no evm record (contents updater); it holds the missing names in list
\* order, the document is not saved and no dataset has been probed for its schema or
\* contents; in the schema updater no capability probe at all has been issued.
C19_MissingNetworks ==
    C19_Checked =>
        /\ C19_MissingFile
        /\ (missingTxt # NoFile /\ prog = "schema") => ~probed

\* The schema updater: base is in the document, eth is listed and is not.
C19_Witness ==
    /\ prog = "schema"
    /\ rpc = "failed"
    /\ portalList = <<"base", "eth">>
    /\ missingTxt = [t |-> "lines", lines |-> <<"eth">>]
    /\ ~probed
    /\ requested
    /\ yamlFile = yamlFile0

\* C19 as stated: in both updaters no capability probe has been issued when
\* missing-networks.txt is written.
C19_MissingNetworksNoProbe ==
    C19_Checked =>
        /\ C19_MissingFile
        /\ missingTxt # NoFile => ~probed

\* ---- records of the document the portal has no classification for

\* The keys of the loaded document, in its order, whose record has no non-empty kind
\* and no classification.
C20_Lacking ==
    IF ~HasDatasetsMapping(yamlFile0) THEN <<>>
    ELSE SelectSeq(yamlFile0.datasets.order,
                   LAMBDA key : /\ ~C13_HasKind(yamlFile0.datasets.recs[key])
                                /\ ~MapHas(found, key))

\* C20: a default-mode run of classify-datasets that gets as far as
\* applyClassifications and finds records that have no kind and no classification fails
\* with the 'not found on portal' error naming exactly those records, and saves nothing.
C20_NotFoundOnPortal ==
    (/\ prog = "classify"
     /\ ~fullFlag
     /\ rpc \in {"save", "saved", "failed"}
     /\ failure.t \notin {"list", "probe", "unclassified", "load"}
     /\ C20_Lacking # <<>>)
    => /\ rpc = "failed"
       /\ failure = Failure("notFound", C20_Lacking)
       /\ yamlFile = yamlFile0


\* The batch an item position belongs to (0 for the first batch).
C21_BatchOf(t) == (t - 1) \div batchSize

\* C21: in mapInBatches the number of mapper tasks in flight is never more than
\* batchSize, and no task of a later batch has started while a task of an earlier
\* batch has not completed.
C21_BatchConcurrency ==
    /\ Cardinality(InFlight) <= batchSize
    /\ \A t, u \in DOMAIN tasks :
          C21_BatchOf(t) < C21_BatchOf(u) /\ tasks[u] # "waiting" => tasks[t] = "done"

\* Three items in batches of two: the first task is done, the second still in flight,
\* and the third, of the next batch, has not started.
C21_Witness ==
    /\ batchSize = 2
    /\ Len(itemList) = 3
    /\ tasks[1] = "done"
    /\ tasks[2] \in {"head", "probe"}
    /\ tasks[3] = "waiting"


\* The mapper call of item t ended in its catch: a request threw (transport error,
\* timeout, 429 after the last retry).
C22_Failed(t) == ret[t] # NoResult /\ ret[t].out.t = "error"

C22_SameBatch(t, u) == (t - 1) \div batchSize = (u - 1) \div batchSize

C22_Safe ==
    \A t \in DOMAIN tasks :
       C22_Failed(t) =>
          /\ bpc # "ok"
          /\ \/ bpc = "await" /\ bi = batchSize * ((t - 1) \div batchSize)
             \/ \A u \in DOMAIN tasks :
                   C22_SameBatch(t, u) => tasks[u] = "done" /\ ret[u] # NoResult
          /\ bpc = "thrown" => bfail = "probe" /\ bfound = EmptyMap2

\* C22: when the task of one dataset fails, the other tasks of its batch are not aborted:
\* mapInBatches goes past the batch only when each of them has completed with its own
\* result; and the run then fails: the caller throws and never goes on to save.
C22_SiblingsCompleteRunFails ==
    /\ []C22_Safe
    /\ (\E t \in DOMAIN tasks : C22_Failed(t)) ~> (bpc = "thrown")

\* The first task of a batch of two failed, the second completed after it with a
\* result, and the caller has thrown.
C22_Witness ==
    /\ batchSize = 2
    /\ Len(itemList) >= 2
    /\ C22_Failed(1)
    /\ ~C22_Failed(2)
    /\ Len(finished) >= 2
    /\ finished[1] = 1
    /\ finished[2] = 2
    /\ bpc = "thrown"


C23_Failed(t) == ret[t] # NoResult /\ ret[t].out.t = "error"

C23_Later(t, u) == (u - 1) \div batchSize > (t - 1) \div batchSize

C23_AllDone == \A u \in DOMAIN tasks : tasks[u] = "done" /\ mapperCalls[u] = 1

C24_Applied ==
    /\ prog = "classify"
    /\ fullFlag
    /\ failure.t \notin {"list", "probe", "unclassified", "load"}
    /\ rpc \in {"save", "saved", "failed"}

C24_Before == loadedDatasets(prog, yamlFile0)

\* Every classified dataset has a record whose metadata.kind is its classified kind; a
\* dataset that had no record has exactly {metadata: {kind}, schema: {}}.
C24_KindsSet ==
    \A name \in DOMAIN found.val :
       /\ Get(Get(DocGet(rmem, name), "metadata"), "kind") = Str(found.val[name])
       /\ ~Truthy(DocGet(C24_Before, name)) =>
             DocGet(rmem, name) = Obj([metadata |-> Obj([kind |-> Str(found.val[name])]),
                                       schema |-> EmptyObj])

\* The records without a classification are the ones of the file, unchanged.
C24_OthersKept ==
    \A key \in DOMAIN C24_Before.recs :
       ~MapHas(found, key) => DocGet(rmem, key) = C24_Before.recs[key]

\* C24: with --full-update, after applyClassifications every classified dataset has a
\* record with its classified kind (missing records added as {metadata: {kind},
\* schema: {}}), the records without a classification are unchanged, and the run does
\* not fail.
C24_FullUpdateOverwrites ==
    C24_Applied => C24_KindsSet /\ C24_OthersKept /\ rpc # "failed"


\* The updater has loaded the file, passed checkMissing and detection, and is in or
\* past the mapper calls of updateContents / updateSchema.
C25_Updating ==
    /\ prog \in {"contents", "schema"}
    /\ \/ rpc \in {"update", "saved"}
       \/ rpc = "failed" /\ failure.t = "update"

C25_Before == loadedDatasets(prog, yamlFile0)

\* kind 'evm' where the script looks for it: record.kind (contents updater),
\* record.metadata.kind (schema updater)
C25_IsEvm(record) ==
    IF prog = "contents" THEN Get(record, "kind") = Str("evm")
    ELSE Get(Get(record, "metadata"), "kind") = Str("evm")

\* The record has no contents / no schema.tables.
C25_Lacks(record) ==
    IF prog = "contents" THEN ~Truthy(Get(record, "contents"))
    ELSE ~Truthy(Get(Get(record, "schema"), "tables"))

\* The records the claim lets the run probe and write.
C25_Targets ==
    {key \in DOMAIN C25_Before.recs :
        /\ C25_IsEvm(C25_Before.recs[key])
        /\ MapHas(found, key)
        /\ fullFlag \/ C25_Lacks(C25_Before.recs[key])}

\* The ids whose mapper call has been made.
C25_Probed == {todo[k] : k \in 1..(rpos - 1)}

C26_NoHeadBlock(answer) ==
    /\ answer # Throws
    /\ \/ answer = Null
       \/ Truthy(Get(answer, "_status"))
       \/ Get(answer, "number").t # "number"

C26_Headless == {t \in DOMAIN tasks : C26_NoHeadBlock(server[itemList[t]].head)}

\* C26: in classify-datasets a dataset whose /head gives no head block is skipped: no
\* capability probe is issued for it, its result is neither an error nor unclassified,
\* it gets no entry in the classification map, and a list of such datasets alone does
\* not make classifyAllPortalDatasets throw.
C26_HeadlessSkipped ==
    caller = "classify" =>
       /\ \A t \in C26_Headless :
             /\ t \notin probedTasks
             /\ tasks[t] = "done" => ret[t].out.t = "skipped"
             /\ ~MapHas(bfound, itemList[t])
       /\ C26_Headless = DOMAIN tasks => bpc # "thrown"


C27_Returned == bpc \in {"returned", "ok", "thrown"}

\* C27: mapInBatches terminates when every mapper call does, it calls the mapper once
\* for each item and never twice, and the array it returns has, at each position, the
\* result of the call made for the item at that position, whatever the order in which
\* the tasks of a batch completed.
C27_OncePerItemInOrder ==
    /\ <>C27_Returned
    /\ [](\A t \in DOMAIN mapperCalls : mapperCalls[t] <= 1)
    /\ [](C27_Returned =>
            /\ Len(outList) = Len(itemList)
            /\ \A t \in DOMAIN tasks :
                  /\ mapperCalls[t] = 1
                  /\ tasks[t] = "done"
                  /\ outList[t] = ret[t]
                  /\ ret[t].name = itemList[t])

\* Three items in batches of two; in the first batch the second task completed before
\* the first; mapInBatches has returned.
C27_Witness ==
    /\ C27_Returned
    /\ batchSize = 2
    /\ Len(itemList) = 3
    /\ itemList[1] # itemList[2]
    /\ finished[1] = 2
    /\ finished[2] = 1


\* What the mapper call for the item at position t gives with the portal's answers for
\* its dataset, taken on its own.
C28_ResultOf(t) ==
    LET answer == server[itemList[t]]
    IN  [name |-> itemList[t],
         out |-> IF caller = "classify"
                 THEN IF answer.head = Throws THEN [t |-> "error", probed |-> FALSE]
                      ELSE IF headBlock(getHead(answer.head)) = Null
                      THEN [t |-> "skipped", probed |-> FALSE]
                      ELSE IF answer.then = Throws THEN [t |-> "error", probed |-> TRUE]
                      ELSE [t |-> "kind", kind |-> answer.then.kind, probed |-> TRUE]
                 ELSE IF answer.then = Throws THEN [t |-> "error", probed |-> TRUE]
                      ELSE [t |-> "undefined", probed |-> TRUE]]

C28_Results == [t \in 1..Len(itemList) |-> C28_ResultOf(t)]

C28_Fails ==
    \/ errorNames(C28_Results) # <<>>
    \/ caller = "classify" /\ unclassifiedNames(C28_Results) # <<>>

C28_Writes ==
    {[id |-> itemList[t], field |-> ProbeField(caller), value |-> server[itemList[t]].then.value] :
        t \in {x \in 1..Len(itemList) : caller # "classify" /\ server[itemList[x]].then # Throws}}

\* C28: with the portal's answers fixed, the end of the run is the same for every order
\* in which the tasks of a batch proceed and complete: whether the caller throws, the
\* classification map, and the records written with their values are those the answers
\* give item by item; and no record is written by two tasks.
C28_InterleavingIndependent ==
    /\ \A w1, w2 \in writeSet : w1.id = w2.id => w1.task = w2.task
    /\ bpc \in {"ok", "thrown"} =>
          /\ (bpc = "thrown") <=> C28_Fails
          /\ bpc = "ok" /\ caller = "classify" => bfound = collect(EmptyMap2, C28_Results)
          /\ {[id |-> w.id, field |-> w.field, value |-> w.value] : w \in writeSet} = C28_Writes

\* A run of updateContents in which two tasks of one batch wrote their records, the
\* second of them first, and which ended without error.
C28_Witness ==
    /\ bpc = "ok"
    /\ caller = "contents"
    /\ batchSize = 2
    /\ Len(finished) >= 2
    /\ finished[1] = 2
    /\ finished[2] = 1
    /\ Cardinality(writeSet) = 2


\* Object.keys of a datasets mapping
C29_Keys(document) == Range(document.order)

C29_FileKeys(document) ==
    IF HasDatasetsMapping(document) THEN C29_Keys(document.datasets) ELSE {}

\* No step of a script drops a key from the document in memory or from the file.
C29_Step ==
    /\ tpc = "loop" => C29_Keys(mem) \subseteq C29_Keys(mem')
    /\ C29_Keys(disk) \subseteq C29_Keys(disk')
    /\ rpc \in {"check", "apply", "update", "save"} => C29_Keys(rmem) \subseteq C29_Keys(rmem')
    /\ rpc = "load" /\ rpc' # "failed" => C29_FileKeys(yamlFile) \subseteq C29_Keys(rmem')
    /\ C29_FileKeys(yamlFile) \subseteq C29_FileKeys(yamlFile')

\* C29: no operation removes a dataset record. Every key of the document is still there
\* after transferArchive, applyClassifications, updateContents, updateSchema and
\* sortDatasets, and the file a run (or two runs in a row) leaves has every key of the
\* file it started with.
C29_NoRecordRemoved ==
    /\ [][C29_Step]_vars
    /\ [](tpc # "start" => C29_Keys(disk1) \subseteq C29_Keys(mem))
    /\ [](C29_FileKeys(yamlFile0) \subseteq C29_FileKeys(yamlFile))

\* The transfer script, in a version that sorts, saved a file that has the keys of the
\* file it started from and a new one.
C29_Witness ==
    /\ tpc = "saved"
    /\ variant # "flat"
    /\ C29_Keys(disk1) # {}
    /\ C29_Keys(disk1) \subseteq C29_Keys(disk)
    /\ C29_Keys(disk1) # C29_Keys(disk)


\* C30: a run of the setup wizard that aborts with 'Invalid port number' has not
\* written .env, and the run made after it with the same DATA_DIR and KEY_PATH is not
\* stopped by the data-directory check: it goes on towards the step that writes .env.
C30_RetryAfterInvalidPort ==
    /\ exitWhy = "Invalid port number" => envWrites = 0
    /\ prevExit = "Invalid port number" /\ wpc = "exit" => exitWhy # "data directory exists"

====
